---- MODULE Spec2Model ----
(***************************************************************************)
(* A model of the decision-fusion core of the repository:                  *)
(*   - HexagramLayer  (structure deriver)       specification SpecHex      *)
(*   - CastingLayer / createPRNG (sampler)      specification SpecSampler  *)
(*   - RuleEngineLayer (weight fusion)          specification SpecRule     *)
(*   - SignalModel (signal evaluator)           specification SpecSignal   *)
(*   - SignalModel.detectTrendChange            specification SpecTrend    *)
(*   - WeakLabelBatcher (label export)          specification SpecBatcher  *)
(*   - QuestionLayer / DecisionEngine (NLP)     specification SpecEngine   *)
(*   - OutputLayer (decision output)            specification SpecOutput   *)
(*   - hashStringToNumber (string seeds)        specification SpecHash     *)
(* Every subsystem has its own variables; a specification leaves the       *)
(* variables of the other subsystems at their idle values.                 *)
(*                                                                         *)
(* JavaScript numbers are modelled exactly: 32-bit words as bit vectors,   *)
(* fractions as integer numerators over a common denominator.  Rounding    *)
(* of IEEE doubles is modelled only where a result is decided by the sign  *)
(* of a rounded value: the slopes that detectTrendChange compares.         *)
(***************************************************************************)
EXTENDS Integers, Sequences, FiniteSets, TLC

VARIABLES
    hexLines,     \* HexagramLayer.compute: the Line[] argument of the last call
    hexOut,       \* HexagramLayer.compute: what the last call produced
    hexKey,       \* HexagramLayer.keyToBits: the key argument of the last call
    hexKeyBits,   \* HexagramLayer.keyToBits: the bits it returned (-1: not called)
    samplers,     \* CastingLayer: the casting methods created so far
    strategies,   \* RuleEngineLayer.strategies: the policy table of the instance
    ruleIn,       \* RuleEngineLayer.analyze: the arguments of the last call
    ruleOut,      \* RuleEngineLayer.analyze: what the last call returned
    sigDefs,      \* SignalModel.kpiDefinitions: the definitions of the instance
    sigSeries,    \* SignalModel.evaluateKPI: the series argument of the last call
    sigOut,       \* SignalModel.evaluateKPI: what the last call produced
    batcher,      \* WeakLabelBatcher: the fields of the instance, its flush, the file
    qlayer,       \* QuestionLayer.nlp (static) and the DecisionEngine calls made
    decision,     \* OutputLayer.generate: what the last call returned
    hashCall      \* hashStringToNumber: the argument and the result of the last call

vars == <<hexLines, hexOut, hexKey, hexKeyBits, samplers, strategies, ruleIn, ruleOut,
         sigDefs, sigSeries, sigOut, batcher, qlayer, decision, hashCall>>

hexVars == <<hexLines, hexOut, hexKey, hexKeyBits>>
samplerVars == <<samplers>>
ruleVars == <<strategies, ruleIn, ruleOut>>
sigVars == <<sigDefs, sigSeries, sigOut>>
batcherVars == <<batcher>>
qlayerVars == <<qlayer>>
outputVars == <<decision>>
hashVars == <<hashCall>>

\* The result slot of an operation that has not been called yet.
Idle == [status |-> "idle"]

\* The casting methods a run may hold, and the slot of one not created yet.
SamplerIds == {"a", "b"}
NoMethod == [name |-> "none"]
NoSamplers == [id \in SamplerIds |-> NoMethod]

(***************************************************************************)
(* Bounds of the model                                                     *)
(***************************************************************************)
\* Longest Line[] handed to HexagramLayer.compute (6 is the valid length).
MaxLines == 7

\* Longest value list of a KPI series.
MaxSeriesLen == 5

\* Number of entries handed to a WeakLabelBatcher.
MaxEntries == 4

\* Number of rolls of one casting method (CastingLayer.cast rolls six times).
MaxRolls == 6

\* Largest window handed to detectTrendChange.
MaxWindow == 5

\* Longest string handed to hashStringToNumber.
MaxStringLen == 3

\* 2^i for the bit positions used by the code.
Pow2(i) == 2 ^ i

\* Bit i (0-based) of a non-negative integer: (bits & (1 << i)) != 0.
BitSet(bits, i) == (bits \div Pow2(i)) % 2 = 1

\* bits |= (1 << i)
BitOr(bits, i) == IF BitSet(bits, i) THEN bits ELSE bits + Pow2(i)

(***************************************************************************)
(* CastingLayer.parseLine and HexagramLayer                                *)
(***************************************************************************)
LineValues == {6, 7, 8, 9}

parseLine(value, position) ==
    [ value    |-> value,
      polarity |-> IF value = 6 \/ value = 8 THEN "yin" ELSE "yang",
      isMoving |-> (value = 6 \/ value = 9),
      position |-> position ]

\* The Line[] a caster builds from roll values: position pos for the pos-th value.
LinesOf(vals) == [pos \in 1..Len(vals) |-> parseLine(vals[pos], pos)]

\* polarities[i] of a JavaScript array (0-based); undefined past its end.
PolAt(polarities, i) ==
    IF i + 1 <= Len(polarities) THEN polarities[i + 1] ELSE "undefined"

RECURSIVE linesToBitsFrom(_, _, _)
linesToBitsFrom(polarities, i, bits) ==
    IF i >= 6 THEN bits
    ELSE linesToBitsFrom(polarities, i + 1,
             IF PolAt(polarities, i) = "yang" THEN BitOr(bits, i) ELSE bits)

linesToBits(polarities) == linesToBitsFrom(polarities, 0, 0)

\* A mutant of bitsToKey: the key is written most significant bit first.
bitsToKeyMsbFirst(bits) ==
    [i \in 1..6 |-> IF BitSet(bits, 6 - i) THEN "1" ELSE "0"]

\* The key is a string of six characters; character i (0-based) is bit i.
bitsToKey(bits) ==
    [i \in 1..6 |-> IF BitSet(bits, i - 1) THEN "1" ELSE "0"]

\* key[i] of a JavaScript string (0-based); undefined past its end.
CharAt(key, i) == IF i + 1 <= Len(key) THEN key[i + 1] ELSE "undefined"

RECURSIVE keyToBitsFrom(_, _, _)
keyToBitsFrom(key, i, bits) ==
    IF i >= 6 THEN bits
    ELSE keyToBitsFrom(key, i + 1,
             IF CharAt(key, i) = "1" THEN BitOr(bits, i) ELSE bits)

keyToBits(key) == keyToBitsFrom(key, 0, 0)

\* lines.filter(l => l.isMoving).map(l => l.position)
RECURSIVE MovingOf(_)
MovingOf(lines) ==
    IF lines = <<>> THEN <<>>
    ELSE IF Head(lines).isMoving
         THEN <<Head(lines).position>> \o MovingOf(Tail(lines))
         ELSE MovingOf(Tail(lines))

Flip(polarity) == IF polarity = "yang" THEN "yin" ELSE "yang"

\* A mutant of relatingPolarities: only moving yang lines are flipped.
relatingPolaritiesYangOnly(lines) ==
    [i \in 1..Len(lines) |->
        IF lines[i].isMoving /\ lines[i].polarity = "yang"
        THEN "yin" ELSE lines[i].polarity]

relatingPolarities(lines) ==
    [i \in 1..Len(lines) |->
        IF lines[i].isMoving THEN Flip(lines[i].polarity) ELSE lines[i].polarity]

\* A mutant of mutualPolarities: the window starts one slot too low.
mutualPolaritiesFromFirst(lines) ==
    << lines[1].polarity, lines[2].polarity, lines[3].polarity,
       lines[2].polarity, lines[3].polarity, lines[4].polarity >>

\* lines[1], lines[2], lines[3], lines[2], lines[3], lines[4] of the 0-based array.
mutualPolarities(lines) ==
    << lines[2].polarity, lines[3].polarity, lines[4].polarity,
       lines[3].polarity, lines[4].polarity, lines[5].polarity >>

\* HexagramLayer.compute.  Reading .polarity of lines[1..4] (0-based) raises a
\* TypeError when the element is undefined, i.e. when fewer than 5 lines are given;
\* no other length is checked.
compute(lines) ==
    IF Len(lines) < 5 THEN [status |-> "TypeError"]
    ELSE
    LET primaryBits  == linesToBits([i \in 1..Len(lines) |-> lines[i].polarity])
        relatingBits == linesToBits(relatingPolarities(lines))
        mutualBits   == linesToBits(mutualPolarities(lines))
    IN  [ status         |-> "ok",
          bits           |-> [primary |-> primaryBits, relating |-> relatingBits,
                              mutual |-> mutualBits],
          movingLines    |-> MovingOf(lines),
          primaryKey     |-> bitsToKey(primaryBits),
          relatingKey    |-> bitsToKey(relatingBits),
          mutualKey      |-> bitsToKey(mutualBits),
          primaryNumber  |-> primaryBits + 1,
          relatingNumber |-> relatingBits + 1,
          mutualNumber   |-> mutualBits + 1 ]

\* Every sequence of at most n roll values.
RECURSIVE ValueSeqs(_)
ValueSeqs(n) ==
    IF n = 0 THEN {<<>>}
    ELSE LET shorter == ValueSeqs(n - 1)
         IN  shorter \cup {Append(s, v) : s \in {t \in shorter : Len(t) = n - 1},
                                          v \in LineValues}

InitHex ==
    /\ hexLines \in {LinesOf(vals) : vals \in ValueSeqs(MaxLines)}
    /\ hexOut = Idle
    /\ hexKey = <<>>
    /\ hexKeyBits = -1
    /\ samplers = NoSamplers
    /\ strategies = <<>>
    /\ ruleIn = Idle
    /\ ruleOut = Idle
    /\ sigDefs = <<>>
    /\ sigSeries = Idle
    /\ sigOut = Idle
    /\ decision = Idle
    /\ hashCall = Idle
    /\ batcher = Idle
    /\ qlayer = Idle

\* A call of HexagramLayer.compute on the lines at hand.
Compute ==
    /\ hexOut.status = "idle"
    /\ hexOut' = compute(hexLines)
    /\ UNCHANGED <<hexLines, hexKey, hexKeyBits, samplers, ruleVars, sigVars, batcherVars, qlayerVars, outputVars, hashVars>>

\* A further call of compute, on a six-slot sequence that differs from the last one
\* in one slot.
Recompute ==
    /\ hexOut.status # "idle"
    /\ Len(hexLines) = 6
    /\ \E pos \in 1..Len(hexLines), v \in LineValues :
           /\ v # hexLines[pos].value
           /\ hexLines' = [hexLines EXCEPT ![pos] = parseLine(v, pos)]
    /\ hexOut' = compute(hexLines')
    /\ hexKey' = <<>>
    /\ hexKeyBits' = -1
    /\ UNCHANGED <<samplers, ruleVars, sigVars, batcherVars, qlayerVars, outputVars, hashVars>>

\* A call of HexagramLayer.keyToBits on one of the keys compute returned.
KeyToBits ==
    /\ hexOut.status = "ok"
    /\ \E k \in {hexOut.primaryKey, hexOut.relatingKey, hexOut.mutualKey} :
           /\ hexKey' = k
           /\ hexKeyBits' = keyToBits(k)
    /\ UNCHANGED <<hexLines, hexOut, samplers, ruleVars, sigVars, batcherVars, qlayerVars, outputVars, hashVars>>

NextHex == Compute \/ Recompute \/ KeyToBits

SpecHex == InitHex /\ [][NextHex]_vars

(***************************************************************************)
(* Claims about HexagramLayer (checked under SpecHex)                      *)
(***************************************************************************)
\* a XOR b of two 6-bit structures, bit by bit from bit i upwards.
RECURSIVE Xor6From(_, _, _)
Xor6From(a, b, i) ==
    IF i >= 6 THEN 0
    ELSE (IF BitSet(a, i) # BitSet(b, i) THEN Pow2(i) ELSE 0) + Xor6From(a, b, i + 1)

\* The mask M with bit p-1 set exactly for the positions p whose outcome is 6 or 9.
RECURSIVE ActiveMaskFrom(_, _)
ActiveMaskFrom(lines, p) ==
    IF p > 6 THEN 0
    ELSE (IF lines[p].value \in {6, 9} THEN Pow2(p - 1) ELSE 0)
         + ActiveMaskFrom(lines, p + 1)

\* C3: for every six-slot outcome sequence compute returns relating = primary XOR M,
\* M having bit p-1 set exactly for the active positions p (outcomes 6 and 9); with
\* no active slot relating = primary, with six active slots relating = 63 - primary.
C3_RelatingIsPrimaryXorActive ==
    (hexOut.status = "ok" /\ Len(hexLines) = 6) =>
        /\ hexOut.bits.relating = Xor6From(hexOut.bits.primary, ActiveMaskFrom(hexLines, 1), 0)
        /\ (ActiveMaskFrom(hexLines, 1) = 0 => hexOut.bits.relating = hexOut.bits.primary)
        /\ (ActiveMaskFrom(hexLines, 1) = 63 => hexOut.bits.relating = 63 - hexOut.bits.primary)

\* C3 witness: three active slots of both polarities were flipped by compute.
C3_Witness ==
    /\ hexOut.status = "ok"
    /\ Len(hexLines) = 6
    /\ [i \in 1..6 |-> hexLines[i].value] = <<9, 7, 6, 8, 9, 7>>
    /\ hexOut.bits.primary = 51
    /\ hexOut.bits.relating = 38

Keys == [1..6 -> {"0", "1"}]

\* The round trip of one (bits, key, number) triple returned by compute.
KeyTripleOk(bits, key, number) ==
    /\ bits \in 0..63
    /\ key \in Keys
    /\ \A i \in 0..5 : (key[i + 1] = "1") <=> BitSet(bits, i)
    /\ keyToBits(key) = bits
    /\ number = bits + 1
    /\ number \in 1..64

\* C4: the structure/key mapping is a bijection between 0..63 and the 64 binary keys:
\* keyToBits(bitsToKey(b)) = b for the bits compute encodes, bitsToKey(keyToBits(k)) = k
\* for the key handed to keyToBits, character i of a key is bit i, and every number
\* compute exposes is bits + 1 in 1..64.
C4_KeyBijection ==
    /\ hexOut.status = "ok" =>
          /\ KeyTripleOk(hexOut.bits.primary, hexOut.primaryKey, hexOut.primaryNumber)
          /\ KeyTripleOk(hexOut.bits.relating, hexOut.relatingKey, hexOut.relatingNumber)
          /\ KeyTripleOk(hexOut.bits.mutual, hexOut.mutualKey, hexOut.mutualNumber)
    /\ hexKeyBits # -1 =>
          /\ hexKey \in Keys
          /\ hexKeyBits \in 0..63
          /\ bitsToKey(hexKeyBits) = hexKey

\* C4 witness: an asymmetric key went through keyToBits.
C4_Witness ==
    /\ hexOut.status = "ok"
    /\ hexKey = <<"1", "0", "1", "1", "0", "0">>
    /\ hexKeyBits = 13
    /\ hexOut.primaryNumber = 14

\* Source positions (1-based) of the six mutual bits, bit 0 first.
MutualSource == <<2, 3, 4, 3, 4, 5>>

MutualEncodesInterior ==
    (hexOut.status = "ok" /\ Len(hexLines) = 6) =>
        /\ \A j \in 0..5 :
              BitSet(hexOut.bits.mutual, j) <=> (hexLines[MutualSource[j + 1]].polarity = "yang")
        /\ hexOut.bits.mutual \in 0..63
        /\ hexOut.mutualKey = [j \in 1..6 |->
              IF hexLines[MutualSource[j]].polarity = "yang" THEN "1" ELSE "0"]
        /\ hexOut.mutualNumber = hexOut.bits.mutual + 1

MutualFrame ==
    ( /\ hexOut.status = "ok" /\ Len(hexLines) = 6
      /\ hexOut'.status = "ok" /\ Len(hexLines') = 6
      /\ \A p \in 2..5 : hexLines'[p].polarity = hexLines[p].polarity )
    => /\ hexOut'.bits.mutual = hexOut.bits.mutual
       /\ hexOut'.mutualKey = hexOut.mutualKey
       /\ hexOut'.mutualNumber = hexOut.mutualNumber

\* C5: the mutual structure is encoded from the polarities of source positions
\* [2,3,4,3,4,5], bit 0 first; a call of compute on a sequence that differs from the
\* previous one only in slot 1, in slot 6 or in active flags returns the same mutual
\* bits, key and number.
C5_MutualIgnoresOuterSlots == []MutualEncodesInterior /\ [][MutualFrame]_vars

\* C5 witness: slots 1 and 6 are yang and active, the interior is yin, mutual is 0.
C5_Witness ==
    /\ hexOut.status = "ok"
    /\ Len(hexLines) = 6
    /\ [i \in 1..6 |-> hexLines[i].value] = <<9, 8, 8, 6, 8, 9>>
    /\ hexOut.bits.primary = 33
    /\ hexOut.bits.mutual = 0
    /\ hexOut.mutualNumber = 1

\* C8 (the claim as stated): compute raises an error for every slot sequence whose
\* length is not 6.
C8_WrongLengthRejected ==
    (hexOut.status # "idle" /\ Len(hexLines) # 6) => hexOut.status = "TypeError"

(***************************************************************************)
(* createPRNG (xorshift32) and the seeded casting methods of CastingLayer  *)
(*                                                                         *)
(* A 32-bit word is the pair <<hi, lo>> of its 16-bit halves.  A numeric   *)
(* seed is the record (hi, lo) that stands for hi * 65536 + lo with lo in  *)
(* 0..65535, so that negative seeds and seeds of 2^32 and more can be      *)
(* written.                                                                *)
(***************************************************************************)
WordOf(hi16, lo16) == <<hi16, lo16>>

\* seed >>> 0: the seed modulo 2^32.
ToUint32(seed) == WordOf(seed.hi % 65536, seed.lo)

ZeroWord == WordOf(0, 0)

\* 0xdeadbeef
Sentinel == WordOf(57005, 48879)

\* x << k on 32 bits, for 0 < k < 16.
ShiftLeft(x, k) ==
    WordOf((x[1] % Pow2(16 - k)) * Pow2(k) + x[2] \div Pow2(16 - k),
           (x[2] % Pow2(16 - k)) * Pow2(k))

\* x >>> k on 32 bits, for 16 <= k < 32.
ShiftRightU(x, k) == WordOf(0, x[1] \div Pow2(k - 16))

\* a ^ b of two 16-bit halves.
RECURSIVE Xor16(_, _)
Xor16(a, b) ==
    IF a = 0 THEN b
    ELSE IF b = 0 THEN a
    ELSE ((a + b) % 2) + 2 * Xor16(a \div 2, b \div 2)

XorW(x, y) == WordOf(Xor16(x[1], y[1]), Xor16(x[2], y[2]))

\* v % max for a 32-bit v and a small positive max, from the two halves of v.
WordMod(v, max) == ((v[1] % max) * (65536 % max) + v[2]) % max

\* next() of createPRNG: the new state, which is also the value returned.
next(state) ==
    LET x1 == XorW(state, ShiftLeft(state, 13))
        x2 == XorW(x1, ShiftRightU(x1, 17))
        x3 == XorW(x2, ShiftLeft(x2, 5))
    IN  x3

\* nextInt(max): v % Math.max(1, max) of the value next() returns.
nextInt(v, max) == WordMod(v, IF max > 1 THEN max ELSE 1)

\* A mutant of createPRNG: the seed exposed is the one before the remap of 0.
createPRNGExposesRaw(seed) ==
    LET s0 == ToUint32(seed)
        s  == IF s0 = ZeroWord THEN Sentinel ELSE s0
    IN  [seed |-> s0, state |-> s]

\* createPRNG(seed) for a numeric seed: the resolved seed s (0 becomes the
\* sentinel) and the generator state, which starts at s.
createPRNG(seed) ==
    LET s0 == ToUint32(seed)
        s  == IF s0 = ZeroWord THEN Sentinel ELSE s0
    IN  [seed |-> s, state |-> s]

\* A mutant of threeCoinsRoll: the position argument is mixed into the outcome.
threeCoinsRollUsesPos(state, pos) ==
    LET s1 == next(state)
        s2 == next(s1)
        s3 == next(s2)
        heads == (nextInt(s1, 2) + nextInt(s2, 2) + nextInt(s3, 2) + pos) % 4
    IN  [ value |-> IF heads = 3 THEN 9 ELSE IF heads = 2 THEN 7
                    ELSE IF heads = 1 THEN 8 ELSE 6,
          state |-> s3 ]

\* A mutant of threeCoinsRoll: the third coin is the second one read again.
threeCoinsRollTwoDraws(state, pos) ==
    LET s1 == next(state)
        s2 == next(s1)
        heads == nextInt(s1, 2) + nextInt(s2, 2) + nextInt(s2, 2)
    IN  [ value |-> IF heads = 3 THEN 9 ELSE IF heads = 2 THEN 7
                    ELSE IF heads = 1 THEN 8 ELSE 6,
          state |-> s2 ]

\* roll(_pos) of threeCoins: three draws of nextInt(2); the number of heads
\* 3, 2, 1, 0 gives 9, 7, 8, 6.  Returns the value and the generator's new state.
threeCoinsRoll(state, pos) ==
    LET s1 == next(state)
        s2 == next(s1)
        s3 == next(s2)
        heads == nextInt(s1, 2) + nextInt(s2, 2) + nextInt(s3, 2)
    IN  [ value |-> IF heads = 3 THEN 9 ELSE IF heads = 2 THEN 7
                    ELSE IF heads = 1 THEN 8 ELSE 6,
          state |-> s3 ]

\* roll(_pos) of yarrowStalk: one draw r of nextInt(16); r < 1, < 4, < 9 and the
\* rest give 9, 6, 7, 8.
yarrowStalkRoll(state, pos) ==
    LET s1 == next(state)
        r  == nextInt(s1, 16)
    IN  [ value |-> IF r < 1 THEN 9 ELSE IF r < 4 THEN 6
                    ELSE IF r < 9 THEN 7 ELSE 8,
          state |-> s1 ]

MethodNames == {"three-coins", "yarrow-stalk"}

\* The numeric seeds tried: 0, 1, 42, -1, 2^32 + 1 and 0xdeadbeef.
SeedInputs ==
    { [hi |-> 0, lo |-> 0], [hi |-> 0, lo |-> 1], [hi |-> 0, lo |-> 42],
      [hi |-> -1, lo |-> 65535], [hi |-> 65536, lo |-> 1],
      [hi |-> 57005, lo |-> 48879] }

\* CastingLayer.threeCoins(seed) / yarrowStalk(seed): a casting method with its own
\* generator.  given is the seed argument, rolls the values rolled so far.
newMethod(name, seed) ==
    LET prng == createPRNG(seed)
    IN  [ name |-> name, given |-> seed, seed |-> prng.seed,
          state |-> prng.state, rolls |-> <<>> ]

rollOf(method, pos) ==
    IF method.name = "three-coins" THEN threeCoinsRoll(method.state, pos)
    ELSE yarrowStalkRoll(method.state, pos)

InitSampler ==
    /\ samplers = NoSamplers
    /\ hexLines = <<>>
    /\ hexOut = Idle
    /\ hexKey = <<>>
    /\ hexKeyBits = -1
    /\ strategies = <<>>
    /\ ruleIn = Idle
    /\ ruleOut = Idle
    /\ sigDefs = <<>>
    /\ sigSeries = Idle
    /\ sigOut = Idle
    /\ decision = Idle
    /\ hashCall = Idle
    /\ batcher = Idle
    /\ qlayer = Idle

\* CastingLayer.threeCoins(seed) or CastingLayer.yarrowStalk(seed) is called.
CreateMethod ==
    /\ \E id \in SamplerIds, name \in MethodNames, seed \in SeedInputs :
           /\ samplers[id].name = "none"
           /\ samplers' = [samplers EXCEPT ![id] = newMethod(name, seed)]
    /\ UNCHANGED <<hexVars, ruleVars, sigVars, batcherVars, qlayerVars, outputVars, hashVars>>

\* method.roll(pos) is called on one of the casting methods, with any position.
Roll ==
    /\ \E id \in SamplerIds, pos \in 1..6 :
           /\ samplers[id].name # "none"
           /\ Len(samplers[id].rolls) < MaxRolls
           /\ LET r == rollOf(samplers[id], pos)
              IN  samplers' = [samplers EXCEPT
                      ![id].state = r.state,
                      ![id].rolls = Append(@, r.value)]
    /\ UNCHANGED <<hexVars, ruleVars, sigVars, batcherVars, qlayerVars, outputVars, hashVars>>

NextSampler == CreateMethod \/ Roll

SpecSampler == InitSampler /\ [][NextSampler]_vars

\* createPRNG() without a seed: s is Math.floor(Math.random() * 0xffffffff) >>> 0,
\* here the word `random`, one of 0 .. 2^32 - 2.
createPRNGUnseeded(random) ==
    LET s == IF random = ZeroWord THEN Sentinel ELSE random
    IN  [seed |-> s, state |-> s]

\* The draws of Math.random tried: the smallest two and the largest word.
RandomDraws == {ZeroWord, WordOf(0, 1), WordOf(65535, 65534)}

\* The seed argument of a casting method created without one.
NoSeed == [undefined |-> TRUE]

\* CastingLayer.threeCoins() / yarrowStalk() without a seed.
newMethodUnseeded(name, random) ==
    LET prng == createPRNGUnseeded(random)
    IN  [ name |-> name, given |-> NoSeed, seed |-> prng.seed,
          state |-> prng.state, rolls |-> <<>> ]

\* method.seed as the number a caller reads and hands back.
SeedNumber(method) == [hi |-> method.seed[1], lo |-> method.seed[2]]

\* A first casting method is created, with a numeric seed or without a seed.
CreateOriginal ==
    /\ samplers["a"].name = "none"
    /\ \/ \E name \in MethodNames, seed \in SeedInputs :
               samplers' = [samplers EXCEPT !["a"] = newMethod(name, seed)]
       \/ \E name \in MethodNames, random \in RandomDraws :
               samplers' = [samplers EXCEPT !["a"] = newMethodUnseeded(name, random)]
    /\ UNCHANGED <<hexVars, ruleVars, sigVars, batcherVars, qlayerVars, outputVars, hashVars>>

\* A second casting method of the same model is created from the seed the first
\* one exposes.
Replay ==
    /\ samplers["a"].name # "none"
    /\ samplers["b"].name = "none"
    /\ samplers' = [samplers EXCEPT
           !["b"] = newMethod(samplers["a"].name, SeedNumber(samplers["a"]))]
    /\ UNCHANGED <<hexVars, ruleVars, sigVars, batcherVars, qlayerVars, outputVars, hashVars>>

NextReplay == CreateOriginal \/ Replay \/ Roll

SpecReplay == InitSampler /\ [][NextReplay]_vars

(***************************************************************************)
(* Claims about the sampler (checked under SpecSampler)                    *)
(***************************************************************************)
IsPrefix(s, t) == Len(s) <= Len(t) /\ \A k \in 1..Len(s) : s[k] = t[k]

Created == {id \in SamplerIds : samplers[id].name # "none"}

\* C2: two casting methods of the same model created independently from the same
\* numeric seed produce the same outcomes roll for roll (the same six outcomes once
\* both are rolled six times), whatever positions they are rolled with and however
\* their rolls interleave with each other's; every outcome is one of 6, 7, 8, 9.
C2_SamplerDeterministic ==
    \A i \in Created, j \in Created :
        /\ \A k \in 1..Len(samplers[i].rolls) : samplers[i].rolls[k] \in LineValues
        /\ ( /\ samplers[i].name = samplers[j].name
             /\ samplers[i].given = samplers[j].given
             /\ Len(samplers[i].rolls) <= Len(samplers[j].rolls) )
           => /\ IsPrefix(samplers[i].rolls, samplers[j].rolls)
              /\ samplers[i].seed = samplers[j].seed
              /\ (Len(samplers[i].rolls) = Len(samplers[j].rolls)
                     => samplers[i].state = samplers[j].state)

\* C2 witness: two three-coins methods of seed 42, both rolled six times, whose six
\* outcomes are not all the same value.
C2_Witness ==
    /\ Created = SamplerIds
    /\ \A id \in SamplerIds :
          /\ samplers[id].name = "three-coins"
          /\ samplers[id].given = [hi |-> 0, lo |-> 42]
          /\ Len(samplers[id].rolls) = 6
    /\ samplers["a"].rolls = samplers["b"].rolls
    /\ \E k \in 1..6 : samplers["a"].rolls[k] # samplers["a"].rolls[1]

(***************************************************************************)
(* RuleEngineLayer                                                         *)
(*                                                                         *)
(* A weight vector is a record of three numerators over a common           *)
(* denominator den: primary / den, relating / den, mutual / den.  A score  *)
(* in [0, 1] (riskScore, agency, urgency, the confidences) is written in   *)
(* hundredths; Absent stands for a field the question does not carry.      *)
(***************************************************************************)
Absent == 0 - 1

Profiles == {"zhuxi", "meihua", "engineering"}

\* A mutant of W: the primary and the relating weight of every entry are exchanged.
WExchanged(primary, relating, mutual) ==
    [primary |-> relating, relating |-> primary, mutual |-> mutual, den |-> 20]

\* { primary, relating, mutual } of the table, in twentieths.
W(primary, relating, mutual) ==
    [primary |-> primary, relating |-> relating, mutual |-> mutual, den |-> 20]

Entry(focus, weights) == [focus |-> focus, weights |-> weights]

\* RuleEngineLayer.loadStrategies: profile -> moving count 0..6 -> strategy.
loadStrategies ==
    [ zhuxi |->
        [ c \in 0..6 |->
            CASE c = 0 -> Entry("judgment",        W(20, 0, 0))
              [] c = 1 -> Entry("line",            W(14, 4, 2))
              [] c = 2 -> Entry("both-lines",      W(12, 6, 2))
              [] c = 3 -> Entry("transition",      W(8, 8, 4))
              [] c = 4 -> Entry("relating",        W(6, 10, 4))
              [] c = 5 -> Entry("major-change",    W(4, 14, 2))
              [] c = 6 -> Entry("complete-change", W(2, 18, 0)) ],
      meihua |->
        [ c \in 0..6 |->
            CASE c = 0 -> Entry("judgment",        W(16, 0, 4))
              [] c = 1 -> Entry("line",            W(12, 4, 4))
              [] c = 2 -> Entry("both-lines",      W(10, 5, 5))
              [] c = 3 -> Entry("transition",      W(7, 7, 6))
              [] c = 4 -> Entry("relating",        W(6, 8, 6))
              [] c = 5 -> Entry("major-change",    W(4, 10, 6))
              [] c = 6 -> Entry("complete-change", W(2, 14, 4)) ],
      engineering |->
        [ c \in 0..6 |->
            CASE c = 0 -> Entry("judgment",        W(20, 0, 0))
              [] c = 1 -> Entry("line",            W(12, 6, 2))
              [] c = 2 -> Entry("both-lines",      W(10, 7, 3))
              [] c = 3 -> Entry("transition",      W(7, 7, 6))
              [] c = 4 -> Entry("relating",        W(5, 10, 5))
              [] c = 5 -> Entry("major-change",    W(3, 13, 4))
              [] c = 6 -> Entry("complete-change", W(2, 16, 2)) ] ]

\* adjusted.primary *= fp / 20, adjusted.relating *= fr / 20, adjusted.mutual *= fm / 20
\* (a factor of 20 leaves the weight alone).
Scale(w, fp, fr, fm) ==
    [ primary  |-> w.primary * fp,
      relating |-> w.relating * fr,
      mutual   |-> w.mutual * fm,
      den      |-> w.den * 20 ]

\* JavaScript truthiness of an optional number: present and not 0.
Truthy(x) == x # Absent /\ x # 0

\* if (question.intent === 'timing' && question.isTrendDetected)
timingRule(adjusted, question) ==
    IF question.intent = "timing" /\ question.isTrendDetected
    THEN Scale(adjusted, 18, 22, 24) ELSE Scale(adjusted, 20, 20, 20)

\* if (question.intent === 'risk')
riskIntentRule(adjusted, question) ==
    IF question.intent = "risk"
    THEN Scale(adjusted, 23, 19, 20) ELSE Scale(adjusted, 20, 20, 20)

\* A mutant of riskRule: an absent risk score defaults to 0 instead of 0.5.
riskRuleDefaultsToZero(adjusted, question) ==
    LET riskScore == IF Truthy(question.riskScore) THEN question.riskScore ELSE 0
    IN  IF riskScore < 30 \/ question.riskPreference = "conservative"
        THEN Scale(adjusted, 22, 18, 20)
        ELSE IF riskScore > 70 \/ question.riskPreference = "aggressive"
        THEN Scale(adjusted, 19, 23, 20)
        ELSE Scale(adjusted, 20, 20, 20)

\* const riskScore = question.riskScore || 0.5, then the conservative / aggressive rule.
riskRule(adjusted, question) ==
    LET riskScore == IF Truthy(question.riskScore) THEN question.riskScore ELSE 50
    IN  IF riskScore < 30 \/ question.riskPreference = "conservative"
        THEN Scale(adjusted, 22, 18, 20)
        ELSE IF riskScore > 70 \/ question.riskPreference = "aggressive"
        THEN Scale(adjusted, 19, 23, 20)
        ELSE Scale(adjusted, 20, 20, 20)

\* A mutant of agencyRule: the two branches are swapped.
agencyRuleSwapped(adjusted, question) ==
    IF Truthy(question.agency) /\ question.agency > 70
    THEN Scale(adjusted, 19, 20, 23)
    ELSE IF Truthy(question.agency) /\ question.agency < 30
    THEN Scale(adjusted, 21, 21, 18)
    ELSE Scale(adjusted, 20, 20, 20)

\* if (question.agency && question.agency > 0.7) ... else if (question.agency &&
\* question.agency < 0.3) ...
agencyRule(adjusted, question) ==
    IF Truthy(question.agency) /\ question.agency > 70
    THEN Scale(adjusted, 21, 21, 18)
    ELSE IF Truthy(question.agency) /\ question.agency < 30
    THEN Scale(adjusted, 19, 20, 23)
    ELSE Scale(adjusted, 20, 20, 20)

\* if (question.urgency && question.urgency > 0.7)
urgencyRule(adjusted, question) ==
    IF Truthy(question.urgency) /\ question.urgency > 70
    THEN Scale(adjusted, 20, 22, 20) ELSE Scale(adjusted, 20, 20, 20)

\* A mutant of normalize: the divisor leaves the mutual weight out.
normalizeOmitsMutual(adjusted) ==
    [ primary  |-> adjusted.primary,
      relating |-> adjusted.relating,
      mutual   |-> adjusted.mutual,
      den      |-> adjusted.primary + adjusted.relating ]

\* total = primary + relating + mutual; each weight /= total.  With the three
\* weights over one denominator, x / total is the numerator of x over the sum of
\* the numerators; den = 0 stands for the NaN that a division by 0 yields.
normalize(adjusted) ==
    [ primary  |-> adjusted.primary,
      relating |-> adjusted.relating,
      mutual   |-> adjusted.mutual,
      den      |-> adjusted.primary + adjusted.relating + adjusted.mutual ]

\* RuleEngineLayer.featureFusion: works on a copy of the base weights.
featureFusion(baseWeights, question) ==
    normalize(
        urgencyRule(
            agencyRule(
                riskRule(
                    riskIntentRule(
                        timingRule(baseWeights, question),
                        question),
                    question),
                question),
            question))

\* Math.max(...movingLines)
RECURSIVE MaxOf(_)
MaxOf(seq) ==
    IF Len(seq) = 1 THEN seq[1]
    ELSE LET m == MaxOf(Tail(seq)) IN IF seq[1] > m THEN seq[1] ELSE m

Includes(seq, x) == \E k \in 1..Len(seq) : seq[k] = x

\* A mutant of pickKeyLines: position 5 is pushed before position 2.
pickKeyLinesFiveFirst(movingLines, count) ==
    IF count = 0 THEN <<>>
    ELSE IF count = 1 \/ count = 2 THEN movingLines
    ELSE LET result == (IF Includes(movingLines, 5) THEN <<5>> ELSE <<>>)
                       \o (IF Includes(movingLines, 2) THEN <<2>> ELSE <<>>)
         IN  IF Len(result) = 0 THEN <<MaxOf(movingLines)>> ELSE result

\* RuleEngineLayer.pickKeyLines
pickKeyLines(movingLines, count) ==
    IF count = 0 THEN <<>>
    ELSE IF count = 1 \/ count = 2 THEN movingLines
    ELSE LET result == (IF Includes(movingLines, 2) THEN <<2>> ELSE <<>>)
                       \o (IF Includes(movingLines, 5) THEN <<5>> ELSE <<>>)
         IN  IF Len(result) = 0 THEN <<MaxOf(movingLines)>> ELSE result

\* decideFocus with the mutual weight not required to be the largest.
decideFocusMutualNotMax(weights) ==
    IF weights.den = 0 THEN "balanced"
    ELSE IF 2 * weights.primary > weights.den THEN "primary"
    ELSE IF 2 * weights.relating > weights.den THEN "relating"
    ELSE IF 5 * weights.mutual > 2 * weights.den THEN "mutual"
    ELSE "balanced"

\* RuleEngineLayer.decideFocus; a NaN weight (den = 0) fails every comparison.
decideFocus(weights) ==
    LET max == IF weights.primary >= weights.relating /\ weights.primary >= weights.mutual
               THEN weights.primary
               ELSE IF weights.relating >= weights.mutual THEN weights.relating
               ELSE weights.mutual
    IN  IF weights.den = 0 THEN "balanced"
        ELSE IF weights.primary = max /\ 2 * weights.primary > weights.den THEN "primary"
        ELSE IF weights.relating = max /\ 2 * weights.relating > weights.den THEN "relating"
        ELSE IF weights.mutual = max /\ 5 * weights.mutual > 2 * weights.den THEN "mutual"
        ELSE "balanced"

\* baseByCount of calculateConfidence, in hundredths; ?? 0.7 for any other count.
baseByCount(count) ==
    CASE count = 0 -> 70
      [] count = 1 -> 90
      [] count = 2 -> 80
      [] count = 3 -> 60
      [] count = 4 -> 50
      [] count = 5 -> 55
      [] count = 6 -> 55
      [] OTHER -> 70

\* A mutant of calculateConfidence: the final Math.min(base, 1) is dropped.
calculateConfidenceUnclamped(count, question) ==
    baseByCount(count)
      + (IF question.goal # "" /\ question.context # "" THEN 5 ELSE 0)
      + (IF Len(question.options) > 0 THEN 5 ELSE 0)
      + (IF Truthy(question.intentConfidence) /\ question.intentConfidence > 70
         THEN 3 ELSE 0)
      + (IF Truthy(question.confidence) /\ question.confidence > 70 THEN 2 ELSE 0)
      - (IF Truthy(question.urgency) /\ question.urgency > 70 THEN 2 ELSE 0)
      + (IF Truthy(question.agency) /\ question.agency > 70 THEN 2 ELSE 0)

\* RuleEngineLayer.calculateConfidence, in hundredths.
calculateConfidence(count, question) ==
    LET adjustment ==
            (IF question.goal # "" /\ question.context # "" THEN 5 ELSE 0)
          + (IF Len(question.options) > 0 THEN 5 ELSE 0)
          + (IF Truthy(question.intentConfidence) /\ question.intentConfidence > 70
             THEN 3 ELSE 0)
          + (IF Truthy(question.confidence) /\ question.confidence > 70 THEN 2 ELSE 0)
          - (IF Truthy(question.urgency) /\ question.urgency > 70 THEN 2 ELSE 0)
          + (IF Truthy(question.agency) /\ question.agency > 70 THEN 2 ELSE 0)
        base == baseByCount(count) + adjustment
    IN  IF base < 100 THEN base ELSE 100

\* A mutant of fusionArgumentAfter: featureFusion works on its argument, not on a
\* copy, so the table entry ends up holding the adjusted weights.
fusionArgumentAliased(baseWeights, question) == featureFusion(baseWeights, question)

\* The object handed to featureFusion as it is after the call: `adjusted` is a
\* spread copy, so no assignment of featureFusion reaches the argument.
fusionArgumentAfter(baseWeights, question) == baseWeights

\* The table as analyze leaves it: the entry it read holds whatever featureFusion
\* left in strategy.weights; nothing else is assigned.
tableAfterAnalyze(table, movingLines, question, profile) ==
    LET movingCount == Len(movingLines)
    IN  IF profile \notin DOMAIN table \/ movingCount \notin DOMAIN table[profile]
        THEN table
        ELSE [table EXCEPT ![profile][movingCount].weights =
                               fusionArgumentAfter(@, question)]

\* RuleEngineLayer.analyze(hexStruct, question, profile) on the table at hand.
\* Reading strategy.weights of a missing strategy raises a TypeError.
analyze(table, movingLines, question, profile) ==
    LET movingCount == Len(movingLines)
    IN  IF profile \notin DOMAIN table \/ movingCount \notin DOMAIN table[profile]
        THEN [status |-> "TypeError"]
        ELSE
        LET strategy == table[profile][movingCount]
            adjustedWeights == featureFusion(strategy.weights, question)
        IN  [ status        |-> "ok",
              strategy      |-> strategy,
              weights       |-> adjustedWeights,
              keyLines      |-> pickKeyLines(movingLines, movingCount),
              focusHexagram |-> decideFocus(adjustedWeights),
              confidence    |-> calculateConfidence(movingCount, question) ]

\* The feature values tried: absent, 0, and values on both sides of 0.3 and 0.7.
ScoreValues == {Absent, 0, 20, 30, 70, 80}
UrgencyValues == {Absent, 70, 80}
Intents == {"none", "timing", "risk"}
RiskPreferences == {"conservative", "neutral", "aggressive"}

\* hexStruct.movingLines: one ascending list of active positions per count 0..6.
MovingSamples ==
    { <<>>, <<3>>, <<2, 5>>, <<1, 3, 4>>, <<1, 2, 4, 6>>, <<1, 3, 4, 5, 6>>,
      <<1, 2, 3, 4, 5, 6>> }

\* The questions tried: every combination of the features feature fusion reads; the
\* fields only calculateConfidence reads are those of a question parsed without NLP.
FusionQuestions ==
    [ intent           : Intents,
      isTrendDetected  : BOOLEAN,
      riskScore        : ScoreValues,
      riskPreference   : RiskPreferences,
      agency           : ScoreValues,
      urgency          : UrgencyValues,
      goal             : {"goal"},
      context          : {""},
      options          : {<<>>},
      intentConfidence : {Absent},
      confidence       : {Absent} ]

InitRule ==
    /\ strategies = loadStrategies
    /\ ruleIn \in [ status      : {"given"},
                    movingLines : MovingSamples,
                    question    : FusionQuestions,
                    profile     : Profiles ]
    /\ ruleOut = Idle
    /\ hexLines = <<>>
    /\ hexOut = Idle
    /\ hexKey = <<>>
    /\ hexKeyBits = -1
    /\ samplers = NoSamplers
    /\ sigDefs = <<>>
    /\ sigSeries = Idle
    /\ sigOut = Idle
    /\ decision = Idle
    /\ hashCall = Idle
    /\ batcher = Idle
    /\ qlayer = Idle

\* ruleEngine.analyze is called on the arguments at hand.
Analyze ==
    /\ ruleOut.status = "idle"
    /\ ruleOut' = analyze(strategies, ruleIn.movingLines, ruleIn.question, ruleIn.profile)
    /\ strategies' = tableAfterAnalyze(strategies, ruleIn.movingLines, ruleIn.question,
                                       ruleIn.profile)
    /\ UNCHANGED <<ruleIn, hexVars, samplerVars, sigVars, batcherVars, qlayerVars, outputVars, hashVars>>

\* A further call of analyze, on a question that differs from the last one in its
\* agency only.
AnalyzeOtherAgency ==
    /\ ruleOut.status # "idle"
    /\ \E a \in ScoreValues :
           /\ a # ruleIn.question.agency
           /\ ruleIn' = [ruleIn EXCEPT !.question.agency = a]
    /\ ruleOut' = analyze(strategies, ruleIn'.movingLines, ruleIn'.question, ruleIn'.profile)
    /\ strategies' = tableAfterAnalyze(strategies, ruleIn'.movingLines, ruleIn'.question,
                                       ruleIn'.profile)
    /\ UNCHANGED <<hexVars, samplerVars, sigVars, batcherVars, qlayerVars, outputVars, hashVars>>

NextRule == Analyze \/ AnalyzeOtherAgency

SpecRule == InitRule /\ [][NextRule]_vars

\* The questions tried for the confidence: every combination of the fields
\* calculateConfidence reads, with no other fusion feature.
ConfidenceQuestions ==
    [ intent           : {"none"},
      isTrendDetected  : {FALSE},
      riskScore        : {Absent},
      riskPreference   : {"neutral"},
      agency           : ScoreValues,
      urgency          : UrgencyValues,
      goal             : {"", "goal"},
      context          : {"", "context"},
      options          : {<<>>, <<"A", "B">>},
      intentConfidence : {Absent, 0, 70, 80},
      confidence       : {Absent, 0, 70, 80} ]

InitConfidence ==
    /\ strategies = loadStrategies
    /\ ruleIn \in [ status      : {"given"},
                    movingLines : MovingSamples,
                    question    : ConfidenceQuestions,
                    profile     : {"engineering"} ]
    /\ ruleOut = Idle
    /\ hexLines = <<>>
    /\ hexOut = Idle
    /\ hexKey = <<>>
    /\ hexKeyBits = -1
    /\ samplers = NoSamplers
    /\ sigDefs = <<>>
    /\ sigSeries = Idle
    /\ sigOut = Idle
    /\ decision = Idle
    /\ hashCall = Idle
    /\ batcher = Idle
    /\ qlayer = Idle

SpecConfidence == InitConfidence /\ [][NextRule]_vars

\* The questions tried on one long-lived engine: bundles that fire no rule, and
\* bundles that fire the timing, risk, agency and urgency rules.
TableQuestions ==
    [ intent           : {"none", "timing"},
      isTrendDetected  : {TRUE},
      riskScore        : {Absent, 20, 80},
      riskPreference   : {"neutral"},
      agency           : {Absent, 20, 80},
      urgency          : {Absent, 80},
      goal             : {"goal"},
      context          : {""},
      options          : {<<>>},
      intentConfidence : {Absent},
      confidence       : {Absent} ]

\* new RuleEngineLayer(): the table is loaded, analyze has not been called.
InitTable ==
    /\ strategies = loadStrategies
    /\ ruleIn = Idle
    /\ ruleOut = Idle
    /\ hexLines = <<>>
    /\ hexOut = Idle
    /\ hexKey = <<>>
    /\ hexKeyBits = -1
    /\ samplers = NoSamplers
    /\ sigDefs = <<>>
    /\ sigSeries = Idle
    /\ sigOut = Idle
    /\ decision = Idle
    /\ hashCall = Idle
    /\ batcher = Idle
    /\ qlayer = Idle

\* ruleEngine.analyze is called with any structure, question and profile, on the
\* engine that served the calls before.
AnalyzeAny ==
    /\ \E movingLines \in MovingSamples, question \in TableQuestions, profile \in Profiles :
           /\ ruleIn' = [ status |-> "given", movingLines |-> movingLines,
                          question |-> question, profile |-> profile ]
           /\ ruleOut' = analyze(strategies, movingLines, question, profile)
           /\ strategies' = tableAfterAnalyze(strategies, movingLines, question, profile)
    /\ UNCHANGED <<hexVars, samplerVars, sigVars, batcherVars, qlayerVars, outputVars, hashVars>>

NextTable == AnalyzeAny

SpecTable == InitTable /\ [][NextTable]_vars

\* The members of a set of positions in ascending order.
RECURSIVE Ascending(_)
Ascending(S) ==
    IF S = {} THEN <<>>
    ELSE LET top == CHOOSE x \in S : \A y \in S : y <= x
         IN  Append(Ascending(S \ {top}), top)

\* hexStruct.movingLines: every ascending list of positions among 1..6.
AllMovingLines == {Ascending(S) : S \in SUBSET (1..6)}

\* The questions tried with them: the agency varies, no other feature is set.
KeyLineQuestions ==
    [ intent           : {"none"},
      isTrendDetected  : {FALSE},
      riskScore        : {Absent},
      riskPreference   : {"neutral", "aggressive"},
      agency           : ScoreValues,
      urgency          : {Absent},
      goal             : {"goal"},
      context          : {""},
      options          : {<<>>},
      intentConfidence : {Absent},
      confidence       : {Absent} ]

InitKeyLines ==
    /\ strategies = loadStrategies
    /\ ruleIn \in [ status      : {"given"},
                    movingLines : AllMovingLines,
                    question    : KeyLineQuestions,
                    profile     : Profiles ]
    /\ ruleOut = Idle
    /\ hexLines = <<>>
    /\ hexOut = Idle
    /\ hexKey = <<>>
    /\ hexKeyBits = -1
    /\ samplers = NoSamplers
    /\ sigDefs = <<>>
    /\ sigSeries = Idle
    /\ sigOut = Idle
    /\ decision = Idle
    /\ hashCall = Idle
    /\ batcher = Idle
    /\ qlayer = Idle

SpecKeyLines == InitKeyLines /\ [][NextRule]_vars

RECURSIVE RatLess(_, _, _, _)
RatLess(a, b, c, d) ==
    IF a \div b # c \div d THEN a \div b < c \div d
    ELSE IF c % d = 0 THEN FALSE
    ELSE IF a % b = 0 THEN TRUE
    ELSE RatLess(d, c % d, b, a % b)

\* Two successive calls of analyze whose arguments differ only in the agency, which
\* goes from below 0.3 (present, 0 included) to above 0.7.
AgencyRaised ==
    /\ ruleOut.status = "ok" /\ ruleOut'.status = "ok"
    /\ ruleIn' = [ruleIn EXCEPT !.question.agency = ruleIn'.question.agency]
    /\ ruleIn.question.agency # Absent
    /\ ruleIn.question.agency < 30
    /\ ruleIn'.question.agency > 70

PrimaryIncreased ==
    RatLess(ruleOut.weights.primary, ruleOut.weights.den,
            ruleOut'.weights.primary, ruleOut'.weights.den)

PrimaryDecreased ==
    RatLess(ruleOut'.weights.primary, ruleOut'.weights.den,
            ruleOut.weights.primary, ruleOut.weights.den)

BaseOf(in) == strategies[in.profile][Len(in.movingLines)].weights

None == <<>>
Some(v) == <<v>>

\* The KPI definitions of the tests: 'cpu' and 'nps' (window 5), and 'test_kpi',
\* which has no window.
KpiDefs ==
    [ cpu |-> [ direction |-> "lower", good |-> 50, warning |-> 75, bad |-> 90,
                window |-> Some(5) ],
      nps |-> [ direction |-> "higher", good |-> 50, warning |-> 30, bad |-> 0,
                window |-> Some(5) ],
      test_kpi |-> [ direction |-> "higher", good |-> 10, warning |-> 5, bad |-> 0,
                     window |-> None ] ]

\* The series identifiers tried: the defined ones and one without a definition.
KpiIds == {"cpu", "nps", "test_kpi", "unknown"}

\* The values a series is built from.
SeriesValues == {30, 40, 60, 80, 95}

\* Every value list of at most n values.
RECURSIVE SeriesUpTo(_)
SeriesUpTo(n) ==
    IF n = 0 THEN {<<>>}
    ELSE LET shorter == SeriesUpTo(n - 1)
         IN  shorter \cup {Append(s, v) : s \in {t \in shorter : Len(t) = n - 1},
                                          v \in SeriesValues}

RECURSIVE SumSeq(_)
SumSeq(seq) == IF seq = <<>> THEN 0 ELSE Head(seq) + SumSeq(Tail(seq))

Abs(x) == IF x < 0 THEN 0 - x ELSE x

\* window ? values.slice(-window) : values
WindowOf(values, window) ==
    IF window = None \/ window = Some(0) \/ Len(values) <= window[1] THEN values
    ELSE SubSeq(values, Len(values) - window[1] + 1, Len(values))

\* SignalModel.computeSlope: least-squares slope of value against index.  With
\* S the sum of the n values, xDiff = (2i - (n-1)) / 2 and yDiff = (n y - S) / n,
\* so numerator / denominator = 2 N / (n D) for the integer sums N and D below.
computeSlope(values, window) ==
    LET data == WindowOf(values, window)
        n == Len(data)
        S == SumSeq(data)
        N == SumSeq([i \in 1..n |-> (2 * (i - 1) - (n - 1)) * (n * data[i] - S)])
        D == SumSeq([i \in 1..n |-> (2 * (i - 1) - (n - 1)) * (2 * (i - 1) - (n - 1))])
    IN  IF n < 2 THEN [num |-> 0, den |-> 1]
        ELSE IF D = 0 THEN [num |-> 0, den |-> 1]
        ELSE [num |-> 2 * N, den |-> n * D]

\* A mutant of checkThreshold: for lower-is-better a value equal to the bad
\* threshold is already bad.
checkThresholdBadInclusive(value, definition) ==
    IF value = None THEN "undefined"
    ELSE IF definition.direction = "higher"
    THEN IF value[1] >= definition.good THEN "good"
         ELSE IF value[1] >= definition.warning THEN "warning"
         ELSE IF value[1] < definition.bad THEN "bad"
         ELSE "undefined"
    ELSE IF value[1] <= definition.good THEN "good"
         ELSE IF value[1] <= definition.warning THEN "warning"
         ELSE IF value[1] >= definition.bad THEN "bad"
         ELSE "undefined"

\* SignalModel.checkThreshold; every comparison with an undefined value is false.
checkThreshold(value, definition) ==
    IF value = None THEN "undefined"
    ELSE IF definition.direction = "higher"
    THEN IF value[1] >= definition.good THEN "good"
         ELSE IF value[1] >= definition.warning THEN "warning"
         ELSE IF value[1] < definition.bad THEN "bad"
         ELSE "undefined"
    ELSE IF value[1] <= definition.good THEN "good"
         ELSE IF value[1] <= definition.warning THEN "warning"
         ELSE IF value[1] > definition.bad THEN "bad"
         ELSE "undefined"

\* A mutant of determineSignal: in the good zone a slope of 0 is not enough for
\* a positive signal.
determineSignalStrictGood(value, slope, definition) ==
    LET threshold == checkThreshold(value, definition)
        above == value # None /\ 20 * slope.num > Abs(value[1]) * slope.den
        below == value # None /\ 20 * slope.num < 0 - Abs(value[1]) * slope.den
    IN  IF threshold = "good" THEN (IF slope.num > 0 THEN "positive" ELSE "neutral")
        ELSE IF threshold = "bad" THEN (IF slope.num <= 0 THEN "negative" ELSE "neutral")
        ELSE IF definition.direction = "higher"
        THEN IF above THEN "positive" ELSE IF below THEN "negative" ELSE "neutral"
        ELSE IF below THEN "positive" ELSE IF above THEN "negative" ELSE "neutral"

\* SignalModel.determineSignal.  slopeThreshold = |value| * 0.05, which is NaN for
\* an undefined value: every comparison with it is false.
determineSignal(value, slope, definition) ==
    LET threshold == checkThreshold(value, definition)
        above == value # None /\ 20 * slope.num > Abs(value[1]) * slope.den
        below == value # None /\ 20 * slope.num < 0 - Abs(value[1]) * slope.den
    IN  IF threshold = "good" THEN (IF slope.num >= 0 THEN "positive" ELSE "neutral")
        ELSE IF threshold = "bad" THEN (IF slope.num <= 0 THEN "negative" ELSE "neutral")
        ELSE IF definition.direction = "higher"
        THEN IF above THEN "positive" ELSE IF below THEN "negative" ELSE "neutral"
        ELSE IF below THEN "positive" ELSE IF above THEN "negative" ELSE "neutral"

\* n^3 times the variance of the values: the sum of (n v - S)^2.
ScaledVariance(values) ==
    LET n == Len(values)
        S == SumSeq(values)
    IN  SumSeq([i \in 1..n |-> (n * values[i] - S) * (n * values[i] - S)])

\* A mutant of computeConfidence: the guard of the empty list also catches a list
\* of one value.
computeConfidenceZeroForSingle(values) ==
    LET n == Len(values)
        S == SumSeq(values)
        V == ScaledVariance(values)
        stable == S # 0 /\ 100 * V < n * S * S
        volatile == IF S # 0 THEN 4 * V > n * S * S ELSE TRUE
    IN  IF n <= 1 THEN 0
        ELSE 50 + (IF n >= 10 THEN 20 ELSE 0) + (IF n >= 30 THEN 10 ELSE 0)
                + (IF stable THEN 10 ELSE 0) - (IF volatile THEN 20 ELSE 0)

\* SignalModel.computeConfidence (with computeVolatility), in hundredths.  With
\* cv = sqrt(variance) / |mean|: cv < 0.1 iff 100 V < n S^2 and cv > 0.5 iff
\* 4 V > n S^2, for V the scaled variance; a mean of 0 gives cv = 1.
computeConfidence(values) ==
    LET n == Len(values)
        S == SumSeq(values)
        V == ScaledVariance(values)
        stable == S # 0 /\ 100 * V < n * S * S
        volatile == IF S # 0 THEN 4 * V > n * S * S ELSE TRUE
        confidence == 50 + (IF n >= 10 THEN 20 ELSE 0) + (IF n >= 30 THEN 10 ELSE 0)
                         + (IF stable THEN 10 ELSE 0) - (IF volatile THEN 20 ELSE 0)
    IN  IF n = 0 THEN 0
        ELSE IF confidence > 100 THEN 100
        ELSE IF confidence < 10 THEN 10
        ELSE confidence

\* SignalModel.generateTrigger: the kind of text produced.  Every branch formats
\* value.toFixed(2), which raises a TypeError when value is undefined.
generateTrigger(signal, threshold, value, slope, definition) ==
    IF value = None THEN "TypeError"
    ELSE IF threshold = "good" THEN "good-level"
    ELSE IF threshold = "bad" THEN "bad-threshold"
    ELSE IF threshold = "warning" THEN "warning-level"
    ELSE IF 100 * Abs(slope.num) > slope.den
    THEN (IF (definition.direction = "higher" /\ slope.num > 0)
             \/ (definition.direction = "lower" /\ slope.num < 0)
          THEN "trend-positive" ELSE "trend-negative")
    ELSE "stable"

\* values[values.length - 1]
LastOf(values) == IF Len(values) = 0 THEN None ELSE Some(values[Len(values)])

\* A mutant of evaluateKPI: the confidence of a series without a definition is
\* computed from its values.
evaluateKPIScoresUnknown(defs, series) ==
    IF series.kpiId \notin DOMAIN defs
    THEN [ status |-> "ok", kpiId |-> series.kpiId, signal |-> "neutral",
           confidence |-> computeConfidence(series.values),
           trigger |-> "not-found", slope |-> None, lastValue |-> None,
           thresholdCrossed |-> "undefined" ]
    ELSE [status |-> "TypeError"]

\* SignalModel.evaluateKPI.  The result of a series without a definition carries no
\* slope, lastValue or thresholdCrossed.  An exception of generateTrigger leaves the
\* call without a result.
evaluateKPI(defs, series) ==
    IF series.kpiId \notin DOMAIN defs
    THEN [ status |-> "ok", kpiId |-> series.kpiId, signal |-> "neutral",
           confidence |-> 0, trigger |-> "not-found",
           slope |-> None, lastValue |-> None, thresholdCrossed |-> "undefined" ]
    ELSE
    LET definition == defs[series.kpiId]
        lastValue == LastOf(series.values)
        slope == computeSlope(series.values, definition.window)
        thresholdCrossed == checkThreshold(lastValue, definition)
        signal == determineSignal(lastValue, slope, definition)
        confidence == computeConfidence(series.values)
        trigger == generateTrigger(signal, thresholdCrossed, lastValue, slope, definition)
    IN  IF trigger = "TypeError" THEN [status |-> "TypeError"]
        ELSE [ status |-> "ok", kpiId |-> series.kpiId, signal |-> signal,
               confidence |-> confidence, trigger |-> trigger,
               slope |-> Some(slope), lastValue |-> lastValue,
               thresholdCrossed |-> thresholdCrossed ]

InitSignal ==
    /\ sigDefs = KpiDefs
    /\ sigSeries \in [ status : {"given"}, kpiId : KpiIds,
                       values : SeriesUpTo(MaxSeriesLen) ]
    /\ sigOut = Idle
    /\ decision = Idle
    /\ hashCall = Idle
    /\ batcher = Idle
    /\ qlayer = Idle
    /\ hexLines = <<>>
    /\ hexOut = Idle
    /\ hexKey = <<>>
    /\ hexKeyBits = -1
    /\ samplers = NoSamplers
    /\ strategies = <<>>
    /\ ruleIn = Idle
    /\ ruleOut = Idle

\* Definitions with a gap between the warning and the bad threshold, one per
\* direction and mirrors of each other, beside the 'cpu' definition.
ZoneDefs ==
    [ up   |-> [ direction |-> "higher", good |-> 80, warning |-> 60, bad |-> 40,
                 window |-> Some(3) ],
      down |-> [ direction |-> "lower", good |-> 0 - 80, warning |-> 0 - 60,
                 bad |-> 0 - 40, window |-> Some(3) ],
      cpu  |-> KpiDefs.cpu ]

ZoneIds == {"up", "down", "cpu", "unknown"}

\* Values on the thresholds of those definitions, between them and beyond them.
ZoneValues == {0 - 95, 0 - 80, 0 - 60, 0 - 40, 0 - 30, 30, 40, 60, 80, 95}

\* Every list of at most n values of the set.
RECURSIVE SeriesOver(_, _)
SeriesOver(values, n) ==
    IF n = 0 THEN {<<>>}
    ELSE LET shorter == SeriesOver(values, n - 1)
         IN  shorter \cup {Append(s, v) : s \in {t \in shorter : Len(t) = n - 1},
                                          v \in values}

InitSignalZones ==
    /\ sigDefs = ZoneDefs
    /\ sigSeries \in [ status : {"given"}, kpiId : ZoneIds,
                       values : SeriesOver(ZoneValues, 3) ]
    /\ sigOut = Idle
    /\ decision = Idle
    /\ hashCall = Idle
    /\ batcher = Idle
    /\ qlayer = Idle
    /\ hexLines = <<>>
    /\ hexOut = Idle
    /\ hexKey = <<>>
    /\ hexKeyBits = -1
    /\ samplers = NoSamplers
    /\ strategies = <<>>
    /\ ruleIn = Idle
    /\ ruleOut = Idle

\* model.evaluateKPI is called on the series at hand.
EvaluateKPI ==
    /\ sigOut.status = "idle"
    /\ sigOut' = evaluateKPI(sigDefs, sigSeries)
    /\ UNCHANGED <<sigDefs, sigSeries, hexVars, samplerVars, ruleVars, batcherVars, qlayerVars, outputVars, hashVars>>

NextSignal == EvaluateKPI

SpecSignal == InitSignal /\ [][NextSignal]_vars

SpecSignalZones == InitSignalZones /\ [][NextSignal]_vars

\* The series lengths tried for the confidence: on both sides of its steps at 10
\* and 30 values, the empty list and the single value.
ConfidenceLengths == {0, 1, 2, 9, 10, 29, 30}

\* The values of those series: negative, zero and positive, so that the mean can
\* be 0 and the variation small or large.
ConfidenceValues == {0 - 10, 0 - 2, 0, 2, 9, 10}

\* The series of n values that alternates between a and b.
Alternating(n, a, b) == [i \in 1..n |-> IF i % 2 = 1 THEN a ELSE b]

InitSignalConfidence ==
    /\ sigDefs = KpiDefs
    /\ \E id \in KpiIds, n \in ConfidenceLengths, a \in ConfidenceValues,
          b \in ConfidenceValues :
           sigSeries = [status |-> "given", kpiId |-> id, values |-> Alternating(n, a, b)]
    /\ sigOut = Idle
    /\ decision = Idle
    /\ hashCall = Idle
    /\ batcher = Idle
    /\ qlayer = Idle
    /\ hexLines = <<>>
    /\ hexOut = Idle
    /\ hexKey = <<>>
    /\ hexKeyBits = -1
    /\ samplers = NoSamplers
    /\ strategies = <<>>
    /\ ruleIn = Idle
    /\ ruleOut = Idle

SpecSignalConfidence == InitSignalConfidence /\ [][NextSignal]_vars

(***************************************************************************)
(* Claims about SignalModel (checked under SpecSignal)                     *)
(***************************************************************************)
Defined == sigSeries.kpiId \in DOMAIN sigDefs

ZeroVariance == \A i \in 1..Len(sigSeries.values) : sigSeries.values[i] = sigSeries.values[1]

\* C7 (the claim as stated): for a series with a definition whose value list is
\* empty, has a single value or has zero variance, evaluateKPI does not raise: it
\* returns a result with the fallback slope 0.
C7_EdgeCasesNeverRaise ==
    (sigOut.status # "idle" /\ Defined /\ ZeroVariance) =>
        /\ sigOut.status = "ok"
        /\ sigOut.slope # None
        /\ sigOut.slope[1].num = 0

\* C9: for a series identifier without a definition evaluateKPI returns signal
\* neutral and confidence exactly 0, for every value list (the empty one included),
\* with no slope, zone or last value, and does not raise.
C9_UnknownSeriesNeutral ==
    (sigOut.status # "idle" /\ ~Defined) =>
        /\ sigOut.status = "ok"
        /\ sigOut.kpiId = sigSeries.kpiId
        /\ sigOut.signal = "neutral"
        /\ sigOut.confidence = 0
        /\ sigOut.slope = None
        /\ sigOut.lastValue = None
        /\ sigOut.thresholdCrossed = "undefined"

\* C9 witness: a series of three rising values without a definition was evaluated.
C9_Witness ==
    /\ sigOut.status = "ok"
    /\ sigSeries.kpiId = "unknown"
    /\ sigSeries.values = <<30, 40, 60>>
    /\ sigOut.signal = "neutral"
    /\ sigOut.confidence = 0

\* C10 (the claim as stated): for a lower-is-better KPI, a series whose last value
\* is above the bad threshold and whose slope over the window is positive gets the
\* signal negative.
C10_RisingIntoBadIsNegative ==
    ( /\ sigOut.status = "ok" /\ Defined
      /\ sigDefs[sigSeries.kpiId].direction = "lower"
      /\ sigOut.lastValue # None
      /\ sigOut.lastValue[1] > sigDefs[sigSeries.kpiId].bad
      /\ sigOut.slope[1].num > 0 )
    => sigOut.signal = "negative"

(***************************************************************************)
(* WeakLabelBatcher                                                        *)
(*                                                                         *)
(* Entries are numbered 1, 2, ... in the order of the enqueue calls.  The  *)
(* asynchronous flush is a process with two suspension points: pc is       *)
(* "mkdir" while fsp.mkdir is pending and "append" while fsp.appendFile is *)
(* pending.  The flag `flushing` admits one such process at a time.        *)
(***************************************************************************)
\* opts.batchSize of the batcher under test.
BatchSize == 3

\* The instance after its constructor: empty queue, interval timer started; the
\* output file is empty.  inflight counts the calls of flush that are past the
\* two early returns and have not finished; kept collects the entries that were
\* in the queue when a flush failed.
newBatcher ==
    [ status |-> "running", queue |-> <<>>, timer |-> TRUE, flushing |-> FALSE,
      pc |-> "none", toWrite |-> <<>>, awaited |-> FALSE, file |-> <<>>,
      enqueued |-> 0, shutdown |-> "none", mark |-> 0, inflight |-> 0, kept |-> {} ]

\* flush() up to its first await: it returns at once when a flush is in flight or
\* the queue is empty, else it sets the flag and waits for mkdir.  `awaited` tells
\* whether shutdown awaits the promise of this call.
flush(b, awaited) ==
    IF b.flushing \/ b.queue = <<>> THEN b
    ELSE [b EXCEPT !.flushing = TRUE, !.pc = "mkdir", !.awaited = awaited,
                   !.inflight = @ + 1]

\* WeakLabelBatcher.enqueue: push, then flush when the batch size is reached.
enqueue(b, entry) ==
    LET pushed == [b EXCEPT !.queue = Append(@, entry), !.enqueued = entry]
    IN  IF Len(pushed.queue) >= BatchSize THEN flush(pushed, FALSE) ELSE pushed

\* flush() resumed after mkdir: the text to write is built from the queue as it is now.
afterMkdir(b) == [b EXCEPT !.toWrite = b.queue, !.pc = "append"]

\* flush() resumed after appendFile: the whole queue is dropped, the flag reset.
afterAppend(b) ==
    [b EXCEPT !.file = b.file \o b.toWrite, !.queue = <<>>, !.toWrite = <<>>,
              !.flushing = FALSE, !.pc = "none", !.awaited = FALSE,
              !.inflight = @ - 1,
              !.shutdown = IF b.awaited THEN "resolved" ELSE @]

\* A mutant of afterError: the queue is emptied when the flush fails.
afterErrorDropsQueue(b) ==
    [b EXCEPT !.toWrite = <<>>, !.flushing = FALSE, !.pc = "none", !.awaited = FALSE,
              !.queue = <<>>,
              !.inflight = @ - 1,
              !.kept = @ \cup {b.queue[i] : i \in 1..Len(b.queue)},
              !.shutdown = IF b.awaited THEN "rejected" ELSE @]

\* flush() when mkdir or appendFile rejects: only the finally block runs.
afterError(b) ==
    [b EXCEPT !.toWrite = <<>>, !.flushing = FALSE, !.pc = "none", !.awaited = FALSE,
              !.inflight = @ - 1,
              !.kept = @ \cup {b.queue[i] : i \in 1..Len(b.queue)},
              !.shutdown = IF b.awaited THEN "rejected" ELSE @]

\* WeakLabelBatcher.shutdown: clear the timer, await this.flush().  When flush
\* returns at once, so does shutdown.
shutdown(b) ==
    LET stopped == [b EXCEPT !.timer = FALSE, !.mark = b.enqueued]
        started == flush(stopped, TRUE)
    IN  IF started.awaited THEN [started EXCEPT !.shutdown = "pending"]
        ELSE [stopped EXCEPT !.shutdown = "resolved"]

InitBatcher ==
    /\ batcher = newBatcher
    /\ qlayer = Idle
    /\ hexLines = <<>>
    /\ hexOut = Idle
    /\ hexKey = <<>>
    /\ hexKeyBits = -1
    /\ samplers = NoSamplers
    /\ strategies = <<>>
    /\ ruleIn = Idle
    /\ ruleOut = Idle
    /\ sigDefs = <<>>
    /\ sigSeries = Idle
    /\ sigOut = Idle
    /\ decision = Idle
    /\ hashCall = Idle

OthersIdle == UNCHANGED <<hexVars, samplerVars, ruleVars, sigVars, qlayerVars, outputVars, hashVars>>

\* A caller enqueues the next entry.
Enqueue ==
    /\ batcher.enqueued < MaxEntries
    /\ batcher' = enqueue(batcher, batcher.enqueued + 1)
    /\ OthersIdle

\* The interval timer fires and its flush gets past the two early returns.
TimerFlush ==
    /\ batcher.timer
    /\ ~batcher.flushing
    /\ batcher.queue # <<>>
    /\ batcher' = flush(batcher, FALSE)
    /\ OthersIdle

\* fsp.mkdir resolves.
MkdirDone ==
    /\ batcher.pc = "mkdir"
    /\ batcher' = afterMkdir(batcher)
    /\ OthersIdle

\* fsp.appendFile resolves: the text is in the file.
AppendDone ==
    /\ batcher.pc = "append"
    /\ batcher' = afterAppend(batcher)
    /\ OthersIdle

\* fsp.mkdir or fsp.appendFile rejects.
FlushFails ==
    /\ batcher.pc \in {"mkdir", "append"}
    /\ batcher' = afterError(batcher)
    /\ OthersIdle

\* A caller calls shutdown (once).
Shutdown ==
    /\ batcher.shutdown = "none"
    /\ batcher' = shutdown(batcher)
    /\ OthersIdle

NextBatcher ==
    \/ Enqueue
    \/ TimerFlush
    \/ MkdirDone
    \/ AppendDone
    \/ FlushFails
    \/ Shutdown

SpecBatcher == InitBatcher /\ [][NextBatcher]_vars

(***************************************************************************)
(* Claims about WeakLabelBatcher (checked under SpecBatcher)               *)
(***************************************************************************)
UpTo(n) == [i \in 1..n |-> i]

InFile(entry) == \E i \in 1..Len(batcher.file) : batcher.file[i] = entry

\* C11 (the claim as stated): whenever the queue is empty and no flush is in
\* flight, the output file holds every enqueued entry exactly once, in enqueue
\* order.
C11_NothingLostOrDuplicated ==
    (batcher.queue = <<>> /\ ~batcher.flushing) =>
        batcher.file = UpTo(batcher.enqueued)

\* C12 (the claim as stated): when the promise of shutdown has resolved, every
\* entry enqueued before the shutdown call is in the output file.
C12_ShutdownFlushesEverything ==
    batcher.shutdown = "resolved" =>
        \A entry \in 1..batcher.mark : InFile(entry)

(***************************************************************************)
(* Claims about the confidence of analyze (checked under SpecConfidence)   *)
(***************************************************************************)
\* The base of the claim for counts 0..6, in hundredths.
ClaimedBase == <<70, 90, 80, 60, 50, 55, 55>>

\* The sum of the applicable additive adjustments of the claim, in hundredths.
ClaimedAdjustments(q) ==
      (IF q.goal # "" /\ q.context # "" THEN 5 ELSE 0)
    + (IF q.options # <<>> THEN 5 ELSE 0)
    + (IF q.intentConfidence > 70 THEN 3 ELSE 0)
    + (IF q.confidence > 70 THEN 2 ELSE 0)
    - (IF q.urgency > 70 THEN 2 ELSE 0)
    + (IF q.agency > 70 THEN 2 ELSE 0)

\* C13: the confidence analyze returns is min(1, base(count) + adjustments); it is
\* never above 1 and never below 0.48.
C13_ConfidenceInUnitInterval ==
    ruleOut.status # "idle" =>
        LET expected == ClaimedBase[Len(ruleIn.movingLines) + 1]
                            + ClaimedAdjustments(ruleIn.question)
        IN  /\ ruleOut.status = "ok"
            /\ ruleOut.confidence = (IF expected > 100 THEN 100 ELSE expected)
            /\ ruleOut.confidence >= 48
            /\ ruleOut.confidence <= 100

\* C13 witness: one active slot and every positive adjustment: 0.90 + 0.17 is
\* clamped to 1.
C13_Witness ==
    /\ ruleOut.status = "ok"
    /\ Len(ruleIn.movingLines) = 1
    /\ ClaimedAdjustments(ruleIn.question) = 17
    /\ ruleOut.confidence = 100

(***************************************************************************)
(* Claims about the confidence of evaluateKPI (under SpecSignalConfidence) *)
(***************************************************************************)
\* C14: for a series with a definition and at least one value evaluateKPI returns
\* a confidence in [0.1, 1.0]; a returned confidence of exactly 0 belongs to a
\* series without a definition.
C14_SignalConfidenceRange ==
    /\ (sigOut.status # "idle" /\ Defined /\ Len(sigSeries.values) >= 1) =>
           /\ sigOut.status = "ok"
           /\ sigOut.confidence >= 10
           /\ sigOut.confidence <= 100
    /\ (sigOut.status = "ok" /\ sigOut.confidence = 0) => ~Defined

\* C14 witness: a defined KPI with a single value (variation 0) was evaluated and
\* got confidence 0.6.
C14_Witness ==
    /\ sigOut.status = "ok"
    /\ sigSeries.kpiId = "cpu"
    /\ sigSeries.values = <<10>>
    /\ sigOut.confidence = 60

(***************************************************************************)
(* Claims about seed replay (checked under SpecReplay)                     *)
(***************************************************************************)
\* The word is an integer in 1 .. 2^32 - 1.
NonZeroUint32(w) == w[1] \in 0..65535 /\ w[2] \in 0..65535 /\ w # ZeroWord

\* C15: the seed a casting method exposes is an integer in 1 .. 2^32 - 1, the
\* sentinel 0xdeadbeef when the resolved seed is 0, and a method of the same model
\* created from the exposed seed exposes the same seed and produces the same
\* outcomes roll for roll (the same six outcomes once both are rolled six times).
C15_SeedReplay ==
    /\ \A id \in Created :
          /\ NonZeroUint32(samplers[id].seed)
          /\ (samplers[id].given \in SeedInputs /\ ToUint32(samplers[id].given) = ZeroWord)
                => samplers[id].seed = Sentinel
          /\ (samplers[id].given \in SeedInputs /\ ToUint32(samplers[id].given) # ZeroWord)
                => samplers[id].seed = ToUint32(samplers[id].given)
    /\ Created = SamplerIds =>
          /\ samplers["b"].name = samplers["a"].name
          /\ samplers["b"].seed = samplers["a"].seed
          /\ \/ IsPrefix(samplers["a"].rolls, samplers["b"].rolls)
             \/ IsPrefix(samplers["b"].rolls, samplers["a"].rolls)
          /\ (Len(samplers["a"].rolls) = Len(samplers["b"].rolls)
                 => samplers["a"].state = samplers["b"].state)

\* C15 witness: a yarrow-stalk method created with seed 0 exposes the sentinel; its
\* replay from the exposed seed has rolled the same six outcomes.
C15_Witness ==
    /\ Created = SamplerIds
    /\ samplers["a"].name = "yarrow-stalk"
    /\ samplers["a"].given = [hi |-> 0, lo |-> 0]
    /\ samplers["a"].seed = Sentinel
    /\ samplers["b"].given = [hi |-> 57005, lo |-> 48879]
    /\ Len(samplers["a"].rolls) = 6
    /\ samplers["b"].rolls = samplers["a"].rolls

(***************************************************************************)
(* Claims about the policy table (checked under SpecTable)                 *)
(***************************************************************************)
\* C16: after any sequence of analyze calls every one of the 21 (profile, count)
\* base weight vectors of the engine equals its initial value.
C16_TableReadOnly ==
    /\ DOMAIN strategies = Profiles
    /\ \A profile \in Profiles :
          /\ DOMAIN strategies[profile] = 0..6
          /\ \A count \in 0..6 :
                strategies[profile][count] = loadStrategies[profile][count]

\* C16 witness: the last call fired rules, so that the weights it returned differ
\* from the base vector of its table entry.
C16_Witness ==
    /\ ruleOut.status = "ok"
    /\ ruleIn.profile = "meihua"
    /\ Len(ruleIn.movingLines) = 3
    /\ ruleIn.question.intent = "timing"
    /\ ruleIn.question.agency = 80
    /\ ruleOut.weights # strategies["meihua"][3].weights
    /\ ruleOut.strategy.weights = W(7, 7, 6)
\* C17: in each profile, for counts 1..6 the base relating weight never decreases
\* and the base primary weight never increases as the count grows; each of the 21
\* entries is defined, has non-negative weights and sums to 1.
C17_TableMonotone ==
    \A profile \in Profiles :
        /\ profile \in DOMAIN strategies
        /\ \A count \in 0..6 :
              /\ count \in DOMAIN strategies[profile]
              /\ LET w == strategies[profile][count].weights
                 IN  /\ w.primary >= 0 /\ w.relating >= 0 /\ w.mutual >= 0
                     /\ w.den > 0
                     /\ w.primary + w.relating + w.mutual = w.den
        /\ \A count \in 1..5 :
              LET lower == strategies[profile][count].weights
                  upper == strategies[profile][count + 1].weights
              IN  /\ lower.relating * upper.den <= upper.relating * lower.den
                  /\ lower.primary * upper.den >= upper.primary * lower.den

\* C17 witness: the engine served a call with six active slots from the entry of
\* its table with the largest relating and the smallest primary weight.
C17_Witness ==
    /\ ruleOut.status = "ok"
    /\ Len(ruleIn.movingLines) = 6
    /\ ruleOut.strategy = strategies[ruleIn.profile][6]
    /\ \A count \in 1..5 :
          /\ strategies[ruleIn.profile][count].weights.relating
                < ruleOut.strategy.weights.relating
          /\ strategies[ruleIn.profile][count].weights.primary
                > ruleOut.strategy.weights.primary

(***************************************************************************)
(* QuestionLayer and the DecisionEngine constructor                        *)
(*                                                                         *)
(* QuestionLayer.nlp is a static field: one per process, shared by every   *)
(* DecisionEngine.  qlayer.nlp tells whether it holds a QuestionNLP;       *)
(* qlayer.engines tells how each engine was constructed; qlayer.last is    *)
(* the last question parsed and the engine whose run parsed it.  What the  *)
(* heuristics of QuestionNLP.parseText extract from a text is not          *)
(* modelled: its result is any bundle of NlpQuestions.                     *)
(***************************************************************************)
EngineIds == {"e1", "e2"}

NoParse == [engine |-> "none", question |-> Idle]

\* The process after the modules are loaded: nlp is null, no engine exists.
loadedProcess ==
    [ status |-> "loaded", nlp |-> FALSE,
      engines |-> [id \in EngineIds |-> "none"], last |-> NoParse ]

\* The else branch of QuestionLayer.parse for a call without metadata: none of the
\* NLP fields is set.
FallbackQuestion ==
    [ intent |-> "none", isTrendDetected |-> FALSE, riskScore |-> Absent,
      riskPreference |-> "balanced", agency |-> Absent, urgency |-> Absent,
      goal |-> "default", context |-> "", options |-> <<>>,
      intentConfidence |-> Absent, confidence |-> Absent ]

\* What the NLP branch of QuestionLayer.parse may return for a call without
\* metadata: intent, urgency, agency, risk score and trend flag are all set.
NlpQuestions ==
    [ intent           : {"timing", "risk"},
      isTrendDetected  : BOOLEAN,
      riskScore        : {20, 50},
      riskPreference   : {"balanced"},
      agency           : {50, 80},
      urgency          : {30, 80},
      goal             : {"extracted"},
      context          : {""},
      options          : {<<>>},
      intentConfidence : {60},
      confidence       : {50} ]

\* QuestionLayer.configureNLP: the static field gets a QuestionNLP.
configureNLP(q) == [q EXCEPT !.nlp = TRUE]

\* new DecisionEngine(options): configures NLP only when options.nlp is given;
\* without it the static field is left as it is.
newEngine(q, id, withNlp) ==
    LET made == [q EXCEPT !.engines[id] = IF withNlp THEN "nlp" ELSE "plain"]
    IN  IF withNlp THEN configureNLP(made) ELSE made

\* QuestionLayer.parse as called by engine.run: the NLP branch when the static
\* field is set, else the fallback.
parse(q, enhanced) == IF q.nlp THEN enhanced ELSE FallbackQuestion

InitEngine ==
    /\ qlayer = loadedProcess
    /\ batcher = Idle
    /\ hexLines = <<>>
    /\ hexOut = Idle
    /\ hexKey = <<>>
    /\ hexKeyBits = -1
    /\ samplers = NoSamplers
    /\ strategies = <<>>
    /\ ruleIn = Idle
    /\ ruleOut = Idle
    /\ sigDefs = <<>>
    /\ sigSeries = Idle
    /\ sigOut = Idle
    /\ decision = Idle
    /\ hashCall = Idle

EngineFrame == UNCHANGED <<hexVars, samplerVars, ruleVars, sigVars, batcherVars, outputVars, hashVars>>

\* new DecisionEngine() or new DecisionEngine({ nlp: ... }).
Construct ==
    /\ \E id \in EngineIds, withNlp \in BOOLEAN :
           /\ qlayer.engines[id] = "none"
           /\ qlayer' = newEngine(qlayer, id, withNlp)
    /\ EngineFrame

\* QuestionLayer.configureNLP(config) called by the application itself.
ConfigureNLP ==
    /\ qlayer' = configureNLP(qlayer)
    /\ EngineFrame

\* engine.run(rawQuestion) parses its question.
RunParse ==
    /\ \E id \in EngineIds, enhanced \in NlpQuestions :
           /\ qlayer.engines[id] # "none"
           /\ qlayer' = [qlayer EXCEPT
                  !.last = [engine |-> id, question |-> parse(qlayer, enhanced)]]
    /\ EngineFrame

NextEngine == Construct \/ ConfigureNLP \/ RunParse

SpecEngine == InitEngine /\ [][NextEngine]_vars

(***************************************************************************)
(* Claims about the NLP option (checked under SpecEngine)                  *)
(***************************************************************************)
\* The weights feature fusion returns for the question are the base weights, for
\* every entry of the policy table.
Unadjusted(question) ==
    \A profile \in Profiles, count \in 0..6 :
        LET base == loadStrategies[profile][count].weights
            out  == featureFusion(base, question)
        IN  /\ out.primary * base.den = base.primary * out.den
            /\ out.relating * base.den = base.relating * out.den
            /\ out.mutual * base.den = base.mutual * out.den

\* C18 (the claim as stated): a question parsed by the run of an engine that was
\* constructed without the nlp option is the fallback question: it carries no
\* intent, urgency, agency, risk score or trend flag, and its weights are the
\* unadjusted base weights, whatever constructions and configureNLP calls came
\* before.
C18_PlainEngineUsesFallback ==
    (qlayer.last.engine # "none" /\ qlayer.engines[qlayer.last.engine] = "plain") =>
        /\ qlayer.last.question = FallbackQuestion
        /\ Unadjusted(qlayer.last.question)

(***************************************************************************)
(* Claims about the rules of feature fusion (checked under SpecRule)       *)
(***************************************************************************)
\* The weights as they enter the risk rule and the agency rule in the last call.
BeforeRiskRule ==
    riskIntentRule(timingRule(BaseOf(ruleIn), ruleIn.question), ruleIn.question)

BeforeAgencyRule == riskRule(BeforeRiskRule, ruleIn.question)

\* C19 (the claim as stated): when the risk score is below 0.3 (0 included) or the
\* preference is conservative, the risk rule multiplies primary by 1.1 and relating
\* by 0.9; otherwise, when the score is above 0.7 or the preference is aggressive,
\* it multiplies relating by 1.15 and primary by 0.95; otherwise it changes nothing.
C19_RiskRule ==
    ruleOut.status = "ok" =>
        LET q == ruleIn.question
            after == riskRule(BeforeRiskRule, q)
        IN  IF (q.riskScore # Absent /\ q.riskScore < 30)
                   \/ q.riskPreference = "conservative"
            THEN after = Scale(BeforeRiskRule, 22, 18, 20)
            ELSE IF (q.riskScore # Absent /\ q.riskScore > 70)
                       \/ q.riskPreference = "aggressive"
            THEN after = Scale(BeforeRiskRule, 19, 23, 20)
            ELSE after = Scale(BeforeRiskRule, 20, 20, 20)

\* C20 (the claim as stated): for an agency above 0.7 the agency rule multiplies
\* primary and relating by 1.05 and mutual by 0.9; for an agency below 0.3 (0
\* included) it multiplies mutual by 1.15 and primary by 0.95; for an agency in
\* [0.3, 0.7] or absent it changes nothing.
C20_AgencyRule ==
    ruleOut.status = "ok" =>
        LET q == ruleIn.question
            after == agencyRule(BeforeAgencyRule, q)
        IN  IF q.agency # Absent /\ q.agency > 70
            THEN after = Scale(BeforeAgencyRule, 21, 21, 18)
            ELSE IF q.agency # Absent /\ q.agency < 30
            THEN after = Scale(BeforeAgencyRule, 19, 20, 23)
            ELSE after = Scale(BeforeAgencyRule, 20, 20, 20)

\* The question carries no intent, trend flag, risk score, agency or urgency, and
\* its risk preference is neither conservative nor aggressive.
Featureless(q) ==
    /\ q.intent = "none"
    /\ ~q.isTrendDetected
    /\ q.riskScore = Absent
    /\ q.agency = Absent
    /\ q.urgency = Absent
    /\ q.riskPreference \notin {"conservative", "aggressive"}

ClaimedSignal(zone, slope, value, direction) ==
    LET overT  == 20 * slope.num > Abs(value) * slope.den
        underT == 20 * slope.num < 0 - Abs(value) * slope.den
    IN  CASE zone = "good" /\ slope.num >= 0 -> "positive"
          [] zone = "good" /\ slope.num < 0 -> "neutral"
          [] zone = "bad" /\ slope.num <= 0 -> "negative"
          [] zone = "bad" /\ slope.num > 0 -> "neutral"
          [] zone \in {"warning", "undefined"} /\ direction = "higher" /\ overT -> "positive"
          [] zone \in {"warning", "undefined"} /\ direction = "lower" /\ underT -> "positive"
          [] zone \in {"warning", "undefined"} /\ direction = "higher" /\ underT -> "negative"
          [] zone \in {"warning", "undefined"} /\ direction = "lower" /\ overT -> "negative"
          [] OTHER -> "neutral"

ClaimedZone(v, d) ==
    IF d.direction = "higher"
    THEN CASE v >= d.good -> "good"
           [] v < d.good /\ v >= d.warning -> "warning"
           [] v < d.good /\ v < d.warning /\ v < d.bad -> "bad"
           [] OTHER -> "undefined"
    ELSE CASE v <= d.good -> "good"
           [] v > d.good /\ v <= d.warning -> "warning"
           [] v > d.good /\ v > d.warning /\ v > d.bad -> "bad"
           [] OTHER -> "undefined"

\* The definition with the other direction and the negated thresholds.
Mirror(d) ==
    [ direction |-> IF d.direction = "higher" THEN "lower" ELSE "higher",
      good |-> 0 - d.good, warning |-> 0 - d.warning, bad |-> 0 - d.bad,
      window |-> d.window ]

\* C23: the zone evaluateKPI reports for the last value is the zone of the claim;
\* it equals the zone of the negated value under the mirrored definition; a value
\* in the gap between warning and bad gives undefined, and no error.
C23_ZoneClassification ==
    (sigOut.status # "idle" /\ Defined /\ sigSeries.values # <<>>) =>
        LET d == sigDefs[sigSeries.kpiId]
            v == sigSeries.values[Len(sigSeries.values)]
        IN  /\ sigOut.status = "ok"
            /\ sigOut.thresholdCrossed = ClaimedZone(v, d)
            /\ sigOut.thresholdCrossed = checkThreshold(Some(0 - v), Mirror(d))

\* C23 witness: a lower-is-better series ended on its bad threshold, in the gap
\* between warning and bad, and got the zone undefined.
C23_Witness ==
    /\ sigOut.status = "ok"
    /\ sigSeries.kpiId = "down"
    /\ sigSeries.values = <<0 - 60, 0 - 40>>
    /\ sigOut.thresholdCrossed = "undefined"

(***************************************************************************)
(* Claims about the key lines (checked under SpecKeyLines)                 *)
(***************************************************************************)
Members(seq) == {seq[k] : k \in 1..Len(seq)}

StrictlyAscending(seq) == \A k \in 1..(Len(seq) - 1) : seq[k] < seq[k + 1]

\* The key lines of the claim for an ascending list of active positions.
ClaimedKeyLines(active) ==
    IF Len(active) <= 2 THEN active
    ELSE IF Members(active) \cap {2, 5} # {} THEN Ascending(Members(active) \cap {2, 5})
    ELSE <<active[Len(active)]>>

\* C24: keyLines is empty for no active slot, the list itself for 1 or 2, and for 3
\* or more the active members of {2, 5}, or the highest active position when
\* neither is active; it is duplicate-free, ascending and within the active list.
C24_KeyLineSelection ==
    ruleOut.status # "idle" =>
        /\ ruleOut.status = "ok"
        /\ ruleOut.keyLines = ClaimedKeyLines(ruleIn.movingLines)
        /\ StrictlyAscending(ruleOut.keyLines)
        /\ Members(ruleOut.keyLines) \subseteq Members(ruleIn.movingLines)

\* C24 witness: four active slots with 2 and 5 among them give the key lines 2, 5.
C24_Witness ==
    /\ ruleOut.status = "ok"
    /\ ruleIn.movingLines = <<2, 3, 5, 6>>
    /\ ruleOut.keyLines = <<2, 5>>

(***************************************************************************)
(* OutputLayer                                                             *)
(*                                                                         *)
(* Of the decision generate returns, the action, the timing and the        *)
(* confidence are modelled; the generated texts (action list, risks,       *)
(* mitigation, signals, reasoning) are not.                                *)
(***************************************************************************)
\* OutputLayer.decideAction: its movingCount is the number of key lines.
decideAction(ruleOutput, question) ==
    LET movingCount == Len(ruleOutput.keyLines)
    IN  IF movingCount = 0
        THEN (IF question.riskPreference = "conservative" THEN "wait" ELSE "do")
        ELSE IF movingCount = 1 THEN "do"
        ELSE IF movingCount >= 3
        THEN (IF question.riskPreference = "aggressive" THEN "phased" ELSE "wait")
        ELSE (IF question.riskPreference = "conservative" THEN "phased" ELSE "do")

\* OutputLayer.decideTiming
decideTiming(ruleOutput, timeframe) ==
    LET movingCount == Len(ruleOutput.keyLines)
    IN  IF timeframe = "immediate" THEN "immediate"
        ELSE IF timeframe = "long" THEN "delayed"
        ELSE IF movingCount = 1 /\ ruleOutput.confidence > 80 THEN "immediate"
        ELSE IF movingCount >= 4 THEN "conditional"
        ELSE "window"

\* OutputLayer.generate
generate(question, timeframe, ruleOutput) ==
    [ status     |-> "ok",
      action     |-> decideAction(ruleOutput, question),
      timing     |-> decideTiming(ruleOutput, timeframe),
      timeframe  |-> timeframe,
      confidence |-> ruleOutput.confidence ]

Timeframes == {"immediate", "mid", "long"}

\* The questions tried: every risk preference, no NLP feature.
OutputQuestions ==
    [ intent           : {"none"},
      isTrendDetected  : {FALSE},
      riskScore        : {Absent},
      riskPreference   : {"conservative", "balanced", "aggressive"},
      agency           : {Absent},
      urgency          : {Absent},
      goal             : {"goal"},
      context          : {""},
      options          : {<<>>},
      intentConfidence : {Absent},
      confidence       : {Absent} ]

InitOutput ==
    /\ strategies = loadStrategies
    /\ ruleIn \in [ status      : {"given"},
                    movingLines : AllMovingLines,
                    question    : OutputQuestions,
                    profile     : Profiles ]
    /\ ruleOut = Idle
    /\ decision = Idle
    /\ hashCall = Idle
    /\ hexLines = <<>>
    /\ hexOut = Idle
    /\ hexKey = <<>>
    /\ hexKeyBits = -1
    /\ samplers = NoSamplers
    /\ sigDefs = <<>>
    /\ sigSeries = Idle
    /\ sigOut = Idle
    /\ batcher = Idle
    /\ qlayer = Idle

\* OutputLayer.generate is called on what analyze returned (layer 6 of the run).
Generate ==
    /\ ruleOut.status = "ok"
    /\ decision.status = "idle"
    /\ \E timeframe \in Timeframes :
           decision' = generate(ruleIn.question, timeframe, ruleOut)
    /\ UNCHANGED <<hexVars, samplerVars, ruleVars, sigVars, batcherVars, qlayerVars, hashVars>>

NextOutput == Analyze \/ Generate

SpecOutput == InitOutput /\ [][NextOutput]_vars

(***************************************************************************)
(* Claims about OutputLayer (checked under SpecOutput)                     *)
(***************************************************************************)
\* C25 (the claim as stated): for three or more moving lines the action of the
\* decision is phased when the risk preference is aggressive and wait otherwise.
C25_ManyMovingLinesWaitOrPhased ==
    (decision.status = "ok" /\ Len(ruleIn.movingLines) >= 3) =>
        decision.action = (IF ruleIn.question.riskPreference = "aggressive"
                           THEN "phased" ELSE "wait")

(***************************************************************************)
(* decideFocus on its own: every normalised weight vector in twentieths    *)
(***************************************************************************)
\* The weight vectors tried: every split of 1 into twentieths.
FocusWeights ==
    { W(pr[1], pr[2], 20 - pr[1] - pr[2]) :
          pr \in { x \in (0..20) \X (0..20) : x[1] + x[2] <= 20 } }

InitFocus ==
    /\ strategies = loadStrategies
    /\ ruleIn \in [ status      : {"given"},
                    movingLines : MovingSamples,
                    question    : FusionQuestions,
                    profile     : Profiles ]
                  \cup [ status : {"weights"}, weights : FocusWeights ]
    /\ ruleOut = Idle
    /\ hexLines = <<>>
    /\ hexOut = Idle
    /\ hexKey = <<>>
    /\ hexKeyBits = -1
    /\ samplers = NoSamplers
    /\ sigDefs = <<>>
    /\ sigSeries = Idle
    /\ sigOut = Idle
    /\ decision = Idle
    /\ hashCall = Idle
    /\ batcher = Idle
    /\ qlayer = Idle

\* analyze, which calls decideFocus on the weights it adjusted and normalised
AnalyzeGiven ==
    /\ ruleIn.status = "given"
    /\ Analyze

\* decideFocus applied to a weight vector
DecideFocus ==
    /\ ruleIn.status = "weights"
    /\ ruleOut.status = "idle"
    /\ ruleOut' = [ status        |-> "focus",
                    weights       |-> ruleIn.weights,
                    focusHexagram |-> decideFocus(ruleIn.weights) ]
    /\ UNCHANGED <<strategies, ruleIn, hexVars, samplerVars, sigVars, batcherVars,
                   qlayerVars, outputVars, hashVars>>

NextFocus == AnalyzeGiven \/ DecideFocus

SpecFocus == InitFocus /\ [][NextFocus]_vars

(***************************************************************************)
(* Claims about decideFocus (checked under SpecFocus)                      *)
(***************************************************************************)
\* x is the largest of the three weights of w (ties included)
Largest(x, w) == x >= w.primary /\ x >= w.relating /\ x >= w.mutual

\* the focus the claim gives for the weights w (numerators over w.den)
ClaimedFocus(w) ==
    IF Largest(w.primary, w) /\ 2 * w.primary > w.den THEN "primary"
    ELSE IF Largest(w.relating, w) /\ 2 * w.relating > w.den THEN "relating"
    ELSE IF Largest(w.mutual, w) /\ 5 * w.mutual > 2 * w.den THEN "mutual"
    ELSE "balanced"

\* C26: the focus is decided on the adjusted, normalised weights analyze
\* returns, by the priority primary (largest and above 0.5), relating (largest
\* and above 0.5), mutual (largest and above 0.4), else balanced; for every
\* weight vector, exact ties included, it is one of the four, and primary or
\* relating only for a weight above 0.5.
C26_DominantFocus ==
    ruleOut.status \in {"ok", "focus"} =>
        /\ ruleOut.focusHexagram \in {"primary", "relating", "mutual", "balanced"}
        /\ ruleOut.focusHexagram = ClaimedFocus(ruleOut.weights)
        /\ ruleOut.focusHexagram = "primary" =>
               2 * ruleOut.weights.primary > ruleOut.weights.den
        /\ ruleOut.focusHexagram = "relating" =>
               2 * ruleOut.weights.relating > ruleOut.weights.den

\* an exact tie of the primary and the mutual weight at 0.45: the focus is mutual
C26_Witness ==
    /\ ruleOut.status = "focus"
    /\ ruleOut.weights.primary = ruleOut.weights.mutual
    /\ 5 * ruleOut.weights.mutual > 2 * ruleOut.weights.den
    /\ ruleOut.focusHexagram = "mutual"

(***************************************************************************)
(* Claims about the three-coin model (checked under SpecSampler)           *)
(***************************************************************************)
\* the low bit of a generator value: the sub-draw nextInt(2) returns for it
Coin(word) == word[2] % 2

\* the outcome the claim gives for a number of heads 0, 1, 2, 3
ClaimedOutcome == <<6, 8, 7, 9>>

\* the sub-draw triples that give the outcome v
TriplesFor(v) ==
    { t \in [1..3 -> {0, 1}] : ClaimedOutcome[t[1] + t[2] + t[3] + 1] = v }

\* the sampler id has just rolled
Rolled(id) ==
    /\ samplers[id].name = "three-coins"
    /\ samplers'[id].name = "three-coins"
    /\ Len(samplers'[id].rolls) = Len(samplers[id].rolls) + 1

\* C27: a roll of the three-coin model advances the generator by exactly
\* three draws, and the value it appends is the outcome 6, 8, 7, 9 for 0, 1, 2, 3
\* heads among the three binary sub-draws; 1, 3, 3 and 1 of the 8 triples give
\* 6, 8, 7 and 9, and every value rolled is in {6,7,8,9}.
C27_ThreeCoins ==
    [][ \A id \in SamplerIds :
          Rolled(id) =>
              LET s1 == next(samplers[id].state)
                  s2 == next(s1)
                  s3 == next(s2)
                  heads == Coin(s1) + Coin(s2) + Coin(s3)
                  value == samplers'[id].rolls[Len(samplers'[id].rolls)]
              IN  /\ samplers'[id].state = s3
                  /\ value = ClaimedOutcome[heads + 1]
                  /\ value \in {6, 7, 8, 9}
                  /\ Cardinality(TriplesFor(6)) = 1
                  /\ Cardinality(TriplesFor(8)) = 3
                  /\ Cardinality(TriplesFor(7)) = 3
                  /\ Cardinality(TriplesFor(9)) = 1 ]_vars

\* one three-coin sampler has rolled each of 6, 7, 8 and 9
C27_Witness ==
    \E id \in SamplerIds :
        /\ samplers[id].name = "three-coins"
        /\ \A v \in {6, 7, 8, 9} :
               \E i \in 1..Len(samplers[id].rolls) : samplers[id].rolls[i] = v

(***************************************************************************)
(* SignalModel.detectTrendChange                                           *)
(*                                                                         *)
(* detectTrendChange tests only the signs of two slopes, and the sign of   *)
(* a slope that is 0 in exact arithmetic depends on the rounding of the    *)
(* doubles: the numerator of computeSlope is therefore computed here as    *)
(* the program computes it, in IEEE 754 binary64 with round to nearest,    *)
(* ties to even.  The values of a series are non-negative integers.  With  *)
(* yMean = M * 2^-q (M of 53 bits) every double of the computation is an   *)
(* integer number of half units 2^-(q+1); the integers are kept as five    *)
(* limbs of 15 bits, least significant first, with a sign.                 *)
(***************************************************************************)
LimbBase == 2^15
BigZero == <<0, 0, 0, 0, 0>>

\* a * c + carry from limb i on, for a small factor c
RECURSIVE MulFrom(_, _, _, _)
MulFrom(a, c, i, carry) ==
    IF i > Len(a) THEN <<>>
    ELSE LET t == a[i] * c + carry
         IN  <<t % LimbBase>> \o MulFrom(a, c, i + 1, t \div LimbBase)

BigMulSmall(a, c) == MulFrom(a, c, 1, 0)

BigOfSmall(k) == BigMulSmall(<<1, 0, 0, 0, 0>>, k)

\* a * 2^k
RECURSIVE BigShl(_, _)
BigShl(a, k) ==
    IF k <= 10 THEN BigMulSmall(a, Pow2(k)) ELSE BigShl(BigMulSmall(a, 1024), k - 10)

RECURSIVE AddFrom(_, _, _, _)
AddFrom(a, b, i, carry) ==
    IF i > Len(a) THEN <<>>
    ELSE LET t == a[i] + b[i] + carry
         IN  <<t % LimbBase>> \o AddFrom(a, b, i + 1, t \div LimbBase)

BigAdd(a, b) == AddFrom(a, b, 1, 0)

\* a - b for a >= b
RECURSIVE SubFrom(_, _, _, _)
SubFrom(a, b, i, borrow) ==
    IF i > Len(a) THEN <<>>
    ELSE LET t == a[i] - b[i] - borrow
         IN  IF t < 0 THEN <<t + LimbBase>> \o SubFrom(a, b, i + 1, 1)
             ELSE <<t>> \o SubFrom(a, b, i + 1, 0)

BigSub(a, b) == SubFrom(a, b, 1, 0)

\* a < b, compared from the most significant limb i down
RECURSIVE LessFrom(_, _, _)
LessFrom(a, b, i) ==
    IF i = 0 THEN FALSE
    ELSE IF a[i] # b[i] THEN a[i] < b[i]
    ELSE LessFrom(a, b, i - 1)

BigLess(a, b) == LessFrom(a, b, Len(a))

\* quotient and remainder of a by a small n, from limb i down
RECURSIVE DivFrom(_, _, _, _)
DivFrom(a, n, i, rem) ==
    IF i = 0 THEN [q |-> <<>>, r |-> rem]
    ELSE LET t == rem * LimbBase + a[i]
             rest == DivFrom(a, n, i - 1, t % n)
         IN  [q |-> Append(rest.q, t \div n), r |-> rest.r]

\* a / n rounded to the nearest integer, ties to even
BigDivRound(a, n) ==
    LET d == DivFrom(a, n, Len(a), 0)
    IN  IF 2 * d.r > n \/ (2 * d.r = n /\ d.q[1] % 2 = 1)
        THEN BigAdd(d.q, BigOfSmall(1))
        ELSE d.q

RECURSIVE SmallBitLen(_)
SmallBitLen(k) == IF k = 0 THEN 0 ELSE 1 + SmallBitLen(k \div 2)

RECURSIVE BitLenFrom(_, _)
BitLenFrom(a, i) ==
    IF i = 0 THEN 0
    ELSE IF a[i] # 0 THEN 15 * (i - 1) + SmallBitLen(a[i])
    ELSE BitLenFrom(a, i - 1)

BitLen(a) == BitLenFrom(a, Len(a))

\* a rounded to 53 significant bits, ties to even (fewer than 15 bits dropped)
Round53(a) ==
    LET t == BitLen(a) - 53
    IN  IF t <= 0 THEN a
        ELSE LET rem  == a[1] % Pow2(t)
                 down == [a EXCEPT ![1] = a[1] - rem]
                 odd  == (IF t = 15 THEN a[2] ELSE a[1] \div Pow2(t)) % 2 = 1
             IN  IF 2 * rem > Pow2(t) \/ (2 * rem = Pow2(t) /\ odd)
                 THEN BigAdd(down, BigOfSmall(Pow2(t)))
                 ELSE down

\* signed numbers: a magnitude, and neg for a number below zero
Signed(neg, mag) == [neg |-> neg /\ mag # BigZero, mag |-> mag]

SAdd(x, y) ==
    IF x.neg = y.neg THEN Signed(x.neg, BigAdd(x.mag, y.mag))
    ELSE IF BigLess(x.mag, y.mag) THEN Signed(y.neg, BigSub(y.mag, x.mag))
    ELSE Signed(x.neg, BigSub(x.mag, y.mag))

SMulSmall(x, c) ==
    IF c < 0 THEN Signed(~x.neg, BigMulSmall(x.mag, 0 - c))
    ELSE Signed(x.neg, BigMulSmall(x.mag, c))

SRound(x) == Signed(x.neg, Round53(x.mag))

\* q with 2^52 <= (S / n) * 2^q < 2^53, for 0 < S
UnitOf(S, n) ==
    IF S >= n THEN 52 - (CHOOSE e \in 0..30 : n * Pow2(e) <= S /\ S < n * Pow2(e + 1))
    ELSE 52 + (CHOOSE k \in 1..30 : S * Pow2(k) >= n /\ S * Pow2(k - 1) < n)

\* numerator after the loop of computeSlope has run over data[1..i], in half units
RECURSIVE NumeratorUpTo(_, _, _, _)
NumeratorUpTo(data, q, yMean, i) ==
    IF i = 0 THEN Signed(FALSE, BigZero)
    ELSE LET n     == Len(data)
             yDiff == SRound(SAdd(Signed(FALSE, BigShl(BigOfSmall(data[i]), q)),
                                  Signed(TRUE, yMean)))
             prod  == SRound(SMulSmall(yDiff, 2 * (i - 1) - (n - 1)))
         IN  SRound(SAdd(NumeratorUpTo(data, q, yMean, i - 1), prod))

\* The sign (-1, 0, 1) of computeSlope(data) as the doubles give it: that of the
\* numerator, the denominator being positive for two or more values.
computeSlopeSign(data) ==
    LET n == Len(data)
        S == SumSeq(data)
        q == IF S = 0 THEN 0 ELSE UnitOf(S, n)
        yMean == IF S = 0 THEN BigZero ELSE BigDivRound(BigShl(BigOfSmall(S), q), n)
        numerator == NumeratorUpTo(data, q, yMean, n)
    IN  IF n < 2 THEN 0
        ELSE IF numerator.mag = BigZero THEN 0
        ELSE IF numerator.neg THEN 0 - 1
        ELSE 1

\* SignalModel.detectTrendChange(series, window); window defaults to 3.
detectTrendChange(series, window) ==
    LET w        == IF window = None THEN 3 ELSE window[1]
        len      == Len(series.values)
        recent   == SubSeq(series.values, len - w + 1, len)
        previous == SubSeq(series.values, len - 2 * w + 1, len - w)
        recentSlope   == computeSlopeSign(recent)
        previousSlope == computeSlopeSign(previous)
    IN  IF len < w * 2 THEN [status |-> "trend", changed |-> FALSE, direction |-> "undefined"]
        ELSE IF (recentSlope > 0 /\ previousSlope < 0) \/ (recentSlope < 0 /\ previousSlope > 0)
        THEN [status |-> "trend", changed |-> TRUE,
              direction |-> IF recentSlope > 0 THEN "upward" ELSE "downward"]
        ELSE [status |-> "trend", changed |-> FALSE, direction |-> "undefined"]

\* The windows tried: the default and every window from 1 to MaxWindow.
TrendWindows == {None} \cup {Some(w) : w \in 1..MaxWindow}

\* The values of the series tried.
TrendValues == {0, 1}

InitTrend ==
    /\ sigDefs = KpiDefs
    /\ sigSeries \in [ status : {"given"}, kpiId : {"cpu"},
                       values : SeriesOver(TrendValues, 2 * MaxWindow),
                       window : TrendWindows ]
    /\ sigOut = Idle
    /\ decision = Idle
    /\ hashCall = Idle
    /\ batcher = Idle
    /\ qlayer = Idle
    /\ hexLines = <<>>
    /\ hexOut = Idle
    /\ hexKey = <<>>
    /\ hexKeyBits = -1
    /\ samplers = NoSamplers
    /\ strategies = <<>>
    /\ ruleIn = Idle
    /\ ruleOut = Idle

\* model.detectTrendChange is called on the series and the window at hand.
DetectTrendChange ==
    /\ sigOut.status = "idle"
    /\ sigOut' = detectTrendChange(sigSeries, sigSeries.window)
    /\ UNCHANGED <<sigDefs, sigSeries, hexVars, samplerVars, ruleVars, batcherVars,
                   qlayerVars, outputVars, hashVars>>

NextTrend == DetectTrendChange

SpecTrend == InitTrend /\ [][NextTrend]_vars

(***************************************************************************)
(* Claims about detectTrendChange (checked under SpecTrend)                *)
(***************************************************************************)
\* the sign of the regression slope of data: that of the sum of
\* (2 i - (n - 1)) * data[i] over the indices i = 0 .. n - 1
RegressionSign(data) ==
    LET n   == Len(data)
        sum == SumSeq([i \in 1..n |-> (2 * (i - 1) - (n - 1)) * data[i]])
    IN  IF sum > 0 THEN 1 ELSE IF sum < 0 THEN 0 - 1 ELSE 0

TrendWindow == IF sigSeries.window = None THEN 3 ELSE sigSeries.window[1]

RecentSign ==
    RegressionSign(SubSeq(sigSeries.values, Len(sigSeries.values) - TrendWindow + 1,
                          Len(sigSeries.values)))

PreviousSign ==
    RegressionSign(SubSeq(sigSeries.values, Len(sigSeries.values) - 2 * TrendWindow + 1,
                          Len(sigSeries.values) - TrendWindow))

\* C28 (the claim as stated): changed is true exactly when the series has at
\* least 2w values and the regression slopes of the last w values and of the w
\* values before them have strictly opposite signs; a slope of 0 on either side
\* is never a reversal; the direction is upward iff the recent slope is positive.
C28_TrendReversal ==
    sigOut.status = "trend" =>
        /\ sigOut.changed <=>
               /\ Len(sigSeries.values) >= 2 * TrendWindow
               /\ RecentSign * PreviousSign < 0
        /\ sigOut.changed => (sigOut.direction = "upward" <=> RecentSign > 0)

(***************************************************************************)
(* hashStringToNumber                                                      *)
(*                                                                         *)
(* A string is the sequence of its UTF-16 code units.  The variable h of   *)
(* the code is a number (hi, lo), hi * 65536 + lo with lo in 0..65535: it  *)
(* is not truncated to 32 bits by the += of the loop.                      *)
(***************************************************************************)
\* ToInt32 of a 32-bit word, as a number
Int32Of(word) ==
    [hi |-> IF word[1] >= 32768 THEN word[1] - 65536 ELSE word[1], lo |-> word[2]]

\* a + b of two numbers
NumAdd(a, b) ==
    [hi |-> a.hi + b.hi + (a.lo + b.lo) \div 65536, lo |-> (a.lo + b.lo) % 65536]

\* x << k of an int32 x, for 0 < k < 32: an int32
ShiftLeftInt32(x, k) ==
    LET word == ToUint32(x)
    IN  Int32Of(IF k < 16 THEN ShiftLeft(word, k)
                ELSE WordOf((word[2] % Pow2(32 - k)) * Pow2(k - 16), 0))

\* A mutant of hashStep: the term h << 24 is left out of the sum.
hashStepWithoutShift24(h, codeUnit) ==
    LET x == Int32Of(XorW(ToUint32(h), WordOf(0, codeUnit)))
    IN  NumAdd(x, NumAdd(NumAdd(NumAdd(ShiftLeftInt32(x, 1), ShiftLeftInt32(x, 4)),
                                ShiftLeftInt32(x, 7)),
                         ShiftLeftInt32(x, 8)))

\* One iteration of the loop: h ^= s.charCodeAt(i) makes h an int32, and
\* h += (h << 1) + (h << 4) + (h << 7) + (h << 8) + (h << 24) adds five int32.
hashStep(h, codeUnit) ==
    LET x == Int32Of(XorW(ToUint32(h), WordOf(0, codeUnit)))
    IN  NumAdd(x, NumAdd(NumAdd(NumAdd(NumAdd(ShiftLeftInt32(x, 1), ShiftLeftInt32(x, 4)),
                                       ShiftLeftInt32(x, 7)),
                                ShiftLeftInt32(x, 8)),
                         ShiftLeftInt32(x, 24)))

\* 2166136261 >>> 0
OffsetBasis == [hi |-> 33052, lo |-> 40389]

\* h after the loop has run over s[1..i]
RECURSIVE hashLoop(_, _)
hashLoop(s, i) == IF i = 0 THEN OffsetBasis ELSE hashStep(hashLoop(s, i - 1), s[i])

\* hashStringToNumber(s): h >>> 0 of the h the loop leaves, as a number; raw is
\* that h itself.
hashStringToNumber(s) ==
    LET h == hashLoop(s, Len(s))
        u == ToUint32(h)
    IN  [status |-> "ok", s |-> s, raw |-> h, result |-> [hi |-> u[1], lo |-> u[2]]]

\* The code units tried: NUL, letters, the largest byte, a lone surrogate, 0xFFFF.
CodeUnits == {0, 97, 98, 255, 55357, 65535}

RECURSIVE StringsUpTo(_)
StringsUpTo(n) ==
    IF n = 0 THEN {<<>>}
    ELSE LET shorter == StringsUpTo(n - 1)
         IN  shorter \cup {Append(t, c) : t \in {u \in shorter : Len(u) = n - 1},
                                          c \in CodeUnits}

InitHash ==
    /\ hashCall = Idle
    /\ decision = Idle
    /\ hexLines = <<>>
    /\ hexOut = Idle
    /\ hexKey = <<>>
    /\ hexKeyBits = -1
    /\ samplers = NoSamplers
    /\ strategies = <<>>
    /\ ruleIn = Idle
    /\ ruleOut = Idle
    /\ sigDefs = <<>>
    /\ sigSeries = Idle
    /\ sigOut = Idle
    /\ batcher = Idle
    /\ qlayer = Idle

\* hashStringToNumber is called on a string seed.
HashString ==
    /\ hashCall.status = "idle"
    /\ \E s \in StringsUpTo(MaxStringLen) : hashCall' = hashStringToNumber(s)
    /\ UNCHANGED <<hexVars, samplerVars, ruleVars, sigVars, batcherVars, qlayerVars,
                   outputVars>>

NextHash == HashString

SpecHash == InitHash /\ [][NextHash]_vars

(***************************************************************************)
(* Claims about hashStringToNumber (checked under SpecHash)                *)
(***************************************************************************)
\* ((h XOR c) * 16777619) mod 2^32 for a 32-bit word h = <<hi, lo>>, with
\* 16777619 = 2^24 + 403
FnvStep(h, c) ==
    LET lo == Xor16(h[2], c)
        p  == lo * 403
    IN  WordOf((p \div 65536 + h[1] * 403 + lo * 256) % 65536, p % 65536)

RECURSIVE FnvFold(_, _)
FnvFold(s, i) == IF i = 0 THEN WordOf(33052, 40389) ELSE FnvStep(FnvFold(s, i - 1), s[i])

\* C29: for every string the hash is an integer of 0 .. 2^32 - 1, equal to the
\* FNV-1a fold over the code units from 2166136261, whatever the un-truncated
\* sums between the iterations were; it is a function of the string.
C29_HashIsFnv1a ==
    hashCall.status = "ok" =>
        /\ hashCall.result.hi \in 0..65535
        /\ hashCall.result.lo \in 0..65535
        /\ WordOf(hashCall.result.hi, hashCall.result.lo)
               = FnvFold(hashCall.s, Len(hashCall.s))
        /\ hashCall = hashStringToNumber(hashCall.s)

\* a string of two or more code units whose h left the range 0 .. 2^32 - 1
C29_Witness ==
    /\ hashCall.status = "ok"
    /\ Len(hashCall.s) >= 2
    /\ hashCall.raw.hi \notin 0..65535

(***************************************************************************)
(* Claims about a failed flush (checked under SpecBatcher)                 *)
(***************************************************************************)
InQueue(entry) == \E i \in 1..Len(batcher.queue) : batcher.queue[i] = entry

\* a flush in flight ends without having written: mkdir or appendFile rejected
FlushFailed ==
    /\ batcher.pc \in {"mkdir", "append"}
    /\ batcher'.pc = "none"
    /\ batcher'.file = batcher.file

\* C30: when a flush fails the queue keeps all its entries and the flag is
\* reset, so that the next call of flush starts a flush; the entries that were in
\* the queue at a failure are in the queue or in the file ever after; and at no
\* time is more than one flush, hence more than one append, in flight.
C30_FailedFlushLosesNothing ==
    /\ [][ FlushFailed =>
              /\ batcher'.queue = batcher.queue
              /\ ~batcher'.flushing
              /\ flush(batcher', FALSE).pc = "mkdir" ]_vars
    /\ [](\A entry \in batcher.kept : InQueue(entry) \/ InFile(entry))
    /\ [](batcher.inflight <= 1)
    /\ [](batcher.pc = "append" => batcher.inflight = 1)

\* after a failed flush a later flush has written the entries that were kept
C30_Witness ==
    /\ batcher.kept # {}
    /\ \A entry \in batcher.kept : InFile(entry)
    /\ batcher.queue = <<>>

====
